---------------------------- MODULE Spec2Model ----------------------------
(***************************************************************************)
(* Model of the PST extraction tool (src/src/main.py, src/src/helper.py,   *)
(* src/src/db_actions.py): the run of main(), the depth-first walk of the  *)
(* folder tree, the building of one record per mail item, the materialising*)
(* of attachments on disk and the transactional save of a batch.           *)
(*                                                                         *)
(* Text values (message class, folder names, flags, email ids) are         *)
(* sequences of one-character strings so that upper(), lower(), str(),     *)
(* int() and startswith() are computed and not assumed.                    *)
(***************************************************************************)
EXTENDS Integers, Sequences, FiniteSets, TLC

(***************************************************************************)
(* Bounds of the model.                                                    *)
(***************************************************************************)
NumFolders == 4        \* folders of the archive tree, numbered 1..NumFolders
MsgsPerFolder == 2     \* messages the reader yields for the root folder
MaxFailures == 2       \* injected failures per run of the walk
MaxAttach == 2         \* attachments per message
MaxMicros == 2         \* distinct readings of datetime.now().microsecond
MaxBatch == 3          \* records per batch in the batch-save specification

(***************************************************************************)
(* Text helpers.                                                           *)
(***************************************************************************)
Lowers == <<"a","b","c","d","e","f","g","h","i","j","k","l","m",
            "n","o","p","q","r","s","t","u","v","w","x","y","z">>
Uppers == <<"A","B","C","D","E","F","G","H","I","J","K","L","M",
            "N","O","P","Q","R","S","T","U","V","W","X","Y","Z">>
Digits == <<"0","1","2","3","4","5","6","7","8","9">>

LowerSet == {Lowers[i] : i \in DOMAIN Lowers}
UpperSet == {Uppers[i] : i \in DOMAIN Uppers}
DigitSet == {Digits[i] : i \in DOMAIN Digits}
UpperOf == [c \in LowerSet |-> Uppers[CHOOSE i \in DOMAIN Lowers : Lowers[i] = c]]
LowerOf == [c \in UpperSet |-> Lowers[CHOOSE i \in DOMAIN Uppers : Uppers[i] = c]]
ValueOf == [c \in DigitSet |-> (CHOOSE i \in DOMAIN Digits : Digits[i] = c) - 1]

\* str.upper() on one character
UpperChar(c) == IF c \in LowerSet THEN UpperOf[c] ELSE c

\* str.lower() on one character
LowerChar(c) == IF c \in UpperSet THEN LowerOf[c] ELSE c

StrUpper(s) == [i \in 1..Len(s) |-> UpperChar(s[i])]
StrLower(s) == [i \in 1..Len(s) |-> LowerChar(s[i])]

\* str.startswith(p)
StartsWith(s, p) == Len(s) >= Len(p) /\ SubSeq(s, 1, Len(p)) = p

IsDigit(c) == c \in DigitSet
DigitVal(c) == ValueOf[c]

\* str(n) for a natural number
RECURSIVE ToStr(_)
ToStr(n) ==
    IF n < 10 THEN <<Digits[n + 1]>>
    ELSE ToStr(n \div 10) \o <<Digits[(n % 10) + 1]>>

\* int(s) succeeds (plain decimal digits); anything else is a ValueError
IsIntText(s) == Len(s) > 0 /\ \A i \in 1..Len(s) : IsDigit(s[i])

RECURSIVE ParseInt(_)
ParseInt(s) ==
    IF Len(s) = 0 THEN 0
    ELSE 10 * ParseInt(SubSeq(s, 1, Len(s) - 1)) + DigitVal(s[Len(s)])

EmptyStr == << >>
StrIpmNote == <<"I","P","M",".","N","O","T","E">>

(***************************************************************************)
(* Persistence layer (src/src/db_actions.py).                              *)
(***************************************************************************)
\* columns of fund_mail as created by create_db_tables
MailTableColumns ==
    {"id", "email_id", "subject", "sender_address", "sender_name",
     "from_address", "from_name", "to_recipients", "cc_recipients",
     "email_time", "kst_time", "content", "msg_kind", "folder_path"}

\* columns of fund_mail_attach as created by create_db_tables
AttachTableColumns ==
    {"id", "parent_id", "email_id", "save_folder", "org_file_name",
     "phy_file_name"}

\* columns of a fund_mail_attach table left in the database file by an
\* earlier version of the tool, the one whose column names the INSERT
\* statement still uses; CREATE TABLE IF NOT EXISTS keeps such a table as
\* it is
LegacyAttachTableColumns ==
    {"id", "parent_id", "email_id", "save_folder", "file_name"}

\* columns named by the INSERT INTO fund_mail statement
InsertMailColumns ==
    {"email_id", "subject", "sender_address", "sender_name", "from_address",
     "from_name", "to_recipients", "cc_recipients", "email_time", "kst_time",
     "content"}

\* columns named by the INSERT INTO fund_mail_attach statement
InsertAttachColumns == {"parent_id", "email_id", "save_folder", "file_name"}

\* the store after create_db_tables on a database whose fund_mail_attach
\* table has the columns cols: no rows, AUTOINCREMENT counters at 0
EmptyStore(cols) ==
    [mail |-> << >>, attach |-> << >>, mailSeq |-> 0, attachSeq |-> 0,
     attachCols |-> cols]

\* a transaction in progress: the store as the connection sees it, the
\* number of statements executed so far, and the exception raised if any
BeginTx(st) == [st |-> st, n |-> 0, raised |-> "none"]

TxRaise(tx, exc) == [tx EXCEPT !.raised = exc]

\* cur.execute(INSERT INTO fund_mail ...): the row gets the next
\* AUTOINCREMENT id and the values of the columns the statement names; the
\* statement fails when the storage does (failAt) or when it names a column
\* the table lacks
InsertMail(tx, email, failAt) ==
    IF tx.n + 1 = failAt \/ ~(InsertMailColumns \subseteq MailTableColumns)
    THEN [TxRaise(tx, "sqlite3.Error") EXCEPT !.n = @ + 1]
    ELSE [tx EXCEPT !.n = @ + 1,
                    !.st.mailSeq = @ + 1,
                    !.st.mail = Append(@,
                        [c \in {"id"} \cup (InsertMailColumns \cap DOMAIN email)
                            |-> IF c = "id" THEN tx.st.mailSeq + 1
                                ELSE email[c]])]

\* email.get("attach_files", [])
AttachFilesOf(email) ==
    IF "attach_files" \in DOMAIN email THEN email.attach_files ELSE << >>

\* the list comprehension building attach_rows reads attach["file_name"]
AttachRowsKeyError(atts) ==
    \E i \in DOMAIN atts :
        ~({"email_id", "save_folder", "file_name"} \subseteq DOMAIN atts[i])

\* the rows of one executemany, one statement execution per row
RECURSIVE InsertAttachRows(_, _, _, _)
InsertAttachRows(tx, parent_id, atts, failAt) ==
    IF atts = << >> THEN tx
    ELSE IF tx.n + 1 = failAt
    THEN [TxRaise(tx, "sqlite3.Error") EXCEPT !.n = @ + 1]
    ELSE InsertAttachRows(
            [tx EXCEPT !.n = @ + 1,
                       !.st.attachSeq = @ + 1,
                       !.st.attach = Append(@,
                            [id |-> tx.st.attachSeq + 1,
                             parent_id |-> parent_id,
                             email_id |-> Head(atts).email_id,
                             save_folder |-> Head(atts).save_folder,
                             file_name |-> Head(atts).file_name])],
            parent_id, Tail(atts), failAt)

\* cur.executemany(INSERT INTO fund_mail_attach ...): the statement is
\* prepared before any row is bound, so a column the table lacks fails it
\* even for an empty row list
ExecuteManyAttach(tx, parent_id, atts, failAt) ==
    IF ~(InsertAttachColumns \subseteq tx.st.attachCols)
    THEN TxRaise(tx, "sqlite3.Error")
    ELSE InsertAttachRows(tx, parent_id, atts, failAt)

\* the body of the for loop for one email of the batch
SaveOneEmail(tx, email, failAt) ==
    LET tx1 == InsertMail(tx, email, failAt)
        parent_id == tx1.st.mailSeq
        atts == AttachFilesOf(email)
    IN  IF tx1.raised # "none" THEN tx1
        ELSE IF AttachRowsKeyError(atts) THEN TxRaise(tx1, "KeyError")
        ELSE ExecuteManyAttach(tx1, parent_id, atts, failAt)

\* for email in email_data_list: the loop ends at the first exception
RECURSIVE SaveLoop(_, _, _)
SaveLoop(tx, email_data_list, failAt) ==
    IF email_data_list = << >> \/ tx.raised # "none" THEN tx
    ELSE SaveLoop(SaveOneEmail(tx, Head(email_data_list), failAt),
                  Tail(email_data_list), failAt)

\* leaving the with block: COMMIT when the body raised nothing (the COMMIT
\* is itself a statement the storage may fail), ROLLBACK otherwise
CommitTx(tx, failAt) ==
    IF tx.raised # "none" THEN tx
    ELSE IF tx.n + 1 = failAt
    THEN [TxRaise(tx, "sqlite3.Error") EXCEPT !.n = @ + 1]
    ELSE [tx EXCEPT !.n = @ + 1]

\* a connection that would keep what was written before the exception
ConnExit_NoRollback(pre, tx) == tx.st

\* the store visible after the with block: the committed transaction, or
\* the store as it was before the call when anything was raised
ConnExit(pre, tx) == IF tx.raised = "none" THEN tx.st ELSE pre

\* except sqlite3.Error: raise DBWriteError; other exceptions pass through
RaisedToCaller(exc) == IF exc = "sqlite3.Error" THEN "DBWriteError" ELSE exc

\* the connection of save_email_data_to_db when the call has returned or
\* raised. None is opened when db_path is not set. Otherwise the with
\* statement commits or rolls back at its end and does not close; nothing
\* in the function closes the connection, which is left to the
\* interpreter: open until the connection object is reclaimed, which may
\* be as soon as the frame is released or at a later collection.
ConnectionAtReturn(dbPathSet) ==
    IF dbPathSet THEN {"open", "closed"} ELSE {"none"}

\* save_email_data_to_db(email_data_list, db_path) on the store pre; failAt
\* is the number of the statement at which the storage fails (0: none)
SaveEmailDataToDb(pre, email_data_list, dbPathSet, failAt) ==
    IF ~dbPathSet THEN [store |-> pre, raised |-> "ValueError", stmts |-> 0]
    ELSE LET tx == CommitTx(SaveLoop(BeginTx(pre), email_data_list, failAt),
                            failAt)
         IN  [store |-> ConnExit(pre, tx),
              raised |-> RaisedToCaller(tx.raised),
              stmts |-> tx.n]


(***************************************************************************)
(* Message classification (src/src/helper.py).                             *)
(***************************************************************************)
MSGFLAG_FROMME == 64

\* the folder names determine_message_kind compares the lowered path with
\* (a character outside ASCII is written as its code point)
SentFolderNames ==
    { <<"s","e","n","t"," ","i","t","e","m","s">>,
      <<"s","e","n","t">>,
      <<"U+BCF4","U+B0B8"," ","U+D3B8","U+C9C0","U+D568">>,
      <<"o","u","t","b","o","x">> }

\* a test that would want the flags to be the mask and nothing else
BitSet_Equal(n, mask) == n = mask

\* flags_int & MSGFLAG_FROMME, for the single-bit mask
BitSet(n, mask) == (n \div mask) % 2 = 1

\* a classifier that would leave the kind as extract_email_data initialises
\* it when the flags are no number
determine_message_kind_Unset(flags, folder_path) ==
    IF StrLower(folder_path) \in SentFolderNames THEN "sent"
    ELSE IF flags # EmptyStr /\ ~IsIntText(flags) THEN ""
    ELSE IF BitSet(IF flags = EmptyStr THEN 0 ELSE ParseInt(flags),
                   MSGFLAG_FROMME)
         THEN "sent"
         ELSE "receive"

\* determine_message_kind(msg, folder_path); flags is the text
\* get_property_from_record_sets returned for PR_MESSAGE_FLAGS ("" when the
\* property is absent); int() of a text that is no number is a ValueError,
\* which is swallowed
determine_message_kind(flags, folder_path) ==
    IF StrLower(folder_path) \in SentFolderNames THEN "sent"
    ELSE IF flags # EmptyStr /\ ~IsIntText(flags) THEN "receive"
    ELSE IF BitSet(IF flags = EmptyStr THEN 0 ELSE ParseInt(flags),
                   MSGFLAG_FROMME)
         THEN "sent"
         ELSE "receive"

\* get_message_class(msg): the message_class attribute when it is there and
\* non-empty, else the PR_MESSAGE_CLASS entry of the record sets, else ""
get_message_class(m) ==
    IF m.message_class # EmptyStr THEN m.message_class ELSE m.entry_class

\* a test that would look at the first three characters only
IsMailItem_AnyIpm(msg_class) ==
    StartsWith(StrUpper(msg_class), <<"I","P","M">>)

\* msg_class.upper().startswith("IPM.NOTE")
IsMailItem(msg_class) == StartsWith(StrUpper(msg_class), StrIpmNote)

(***************************************************************************)
(* Address resolution (src/src/helper.py).                                 *)
(***************************************************************************)
SetMin(S) == CHOOSE x \in S : \A y \in S : x <= y
SetMax(S) == CHOOSE x \in S : \A y \in S : y <= x

\* '@' in text
HasAt(text) == \E i \in DOMAIN text : text[i] = "@"

Letters == LowerSet \cup UpperSet
LocalChars == Letters \cup DigitSet \cup {".", "_", "%", "+", "-"}
DomainChars == Letters \cup DigitSet \cup {".", "-"}
HexChars == DigitSet \cup {"a","b","c","d","e","f","A","B","C","D","E","F"}

\* the end of the longest run of characters of cls that starts at i
\* (i - 1 when text[i] is not in cls)
RunEnd(text, i, cls) ==
    LET stops == {j \in i..Len(text) : text[j] \notin cls}
    IN  IF stops = {} THEN Len(text) ELSE SetMin(stops) - 1

\* re.search(r'([a-zA-Z0-9._%+-]+@[a-zA-Z0-9.-]+\.[a-zA-Z]{2,})', text):
\* the match of an address that starts at i ends at the position given here,
\* 0 when none starts at i. The local part runs up to an '@'; of the domain
\* run after it, the last dot with a character before it and two letters
\* after it ends the domain, and the letters after that dot end the match.
EmailEndAt(text, i) ==
    LET at == RunEnd(text, i, LocalChars) + 1
        dEnd == RunEnd(text, at + 1, DomainChars)
        dots == {k \in (at + 2)..dEnd :
                    /\ text[k] = "."
                    /\ RunEnd(text, k + 1, Letters) >= k + 2}
    IN  IF at = i \/ at > Len(text) THEN 0
        ELSE IF text[at] # "@" \/ dots = {} THEN 0
        ELSE RunEnd(text, SetMax(dots) + 1, Letters)

\* group(1) of the leftmost match of the address pattern, "" when none
FindEmail(text) ==
    LET starts == {i \in DOMAIN text : EmailEndAt(text, i) > 0}
    IN  IF starts = {} THEN EmptyStr
        ELSE SubSeq(text, SetMin(starts), EmailEndAt(text, SetMin(starts)))

\* the positions at which the lower-case text pat occurs in text, case
\* ignored
OccurrencesIgnoringCase(text, pat) ==
    {i \in 1..(Len(text) - Len(pat) + 1) :
        StrLower(SubSeq(text, i, i + Len(pat) - 1)) = pat}

\* re.search(key + r'([^/]+)', dn, re.IGNORECASE).group(1) for key "cn=" or
\* "ou=": the characters up to the next slash after the leftmost key that
\* has one, "" when there is no match
DnToken(dn, key) ==
    LET starts == {i \in OccurrencesIgnoringCase(dn, key) :
                      i + Len(key) <= Len(dn) /\ dn[i + Len(key)] # "/"}
        p == SetMin(starts) + Len(key)
    IN  IF starts = {} THEN EmptyStr
        ELSE SubSeq(dn, p, RunEnd(dn, p, {dn[j] : j \in DOMAIN dn} \ {"/"}))

KeyCn == <<"c","n","=">>
KeyOu == <<"o","u","=">>

\* re.match(r'^[0-9A-F]{8}-[0-9A-F]{4}-[0-9A-F]{4}-[0-9A-F]{4}-[0-9A-F]{12}',
\* cn_value, re.IGNORECASE)
IsGuid(cn_value) ==
    /\ Len(cn_value) >= 36
    /\ \A i \in 1..36 :
          IF i \in {9, 14, 19, 24} THEN cn_value[i] = "-"
          ELSE cn_value[i] \in HexChars

\* extract_domain_from_dn(dn)
extract_domain_from_dn(dn) ==
    LET ou_value == StrLower(DnToken(dn, KeyOu))
    IN  IF OccurrencesIgnoringCase(ou_value, <<"e","x","c","h","a","n","g","e">>) # {}
        THEN <<"o","u","t","l","o","o","k",".","c","o","m">>
        ELSE EmptyStr

\* clean_exchange_dn(dn)
clean_exchange_dn(dn) ==
    LET cn_value == DnToken(dn, KeyCn)
        ou_value == DnToken(dn, KeyOu)
        prefix == SubSeq(cn_value, 1, RunEnd(cn_value, 1, HexChars))
    IN  IF cn_value # EmptyStr /\ ~IsGuid(cn_value) THEN cn_value
        ELSE IF cn_value # EmptyStr
        THEN <<"U","s","e","r","_">> \o SubSeq(prefix, 1, 8)
        ELSE IF ou_value # EmptyStr THEN <<"E","x","c","h","a","n","g","e","_">> \o ou_value
        ELSE dn

\* the property identifiers resolve_sender_address tries first, in order
PossibleProps ==
    <<"0x0C1F", "0x0C1E", "0x5D01", "0x0076", "0x0065", "0x3003", "0x39FE">>

\* the property identifiers it searches for an address pattern, in order
AdditionalProps == <<"0x3001", "0x3002", "0x0E08", "0x007D">>

PR_SENDER_EMAIL_ADDRESS == "0x0C1F"
PR_FROM_EMAIL_ADDRESS == "0x0051"

\* the address the pattern name.*?(address) finds in the header lines:
\* that of the first line in which an address follows the name
HeaderAddress(lines, name) ==
    LET InLine(line) ==
            LET occ == OccurrencesIgnoringCase(line, name)
            IN  IF occ = {} THEN EmptyStr
                ELSE FindEmail(SubSeq(line, SetMin(occ) + Len(name), Len(line)))
        hits == {k \in DOMAIN lines : InLine(lines[k]) # EmptyStr}
    IN  IF hits = {} THEN EmptyStr ELSE InLine(lines[SetMin(hits)])

\* the chain with the common name tried before the transport headers
resolve_sender_address_CnFirst(msg, original_dn) ==
    LET withAt == {k \in DOMAIN PossibleProps : HasAt(msg.props[PossibleProps[k]])}
        from_match == HeaderAddress(msg.headers, <<"f","r","o","m",":">>)
        reply_to_match == HeaderAddress(msg.headers, <<"r","e","p","l","y","-","t","o",":">>)
        cn_value == DnToken(original_dn, KeyCn)
        domain == extract_domain_from_dn(original_dn)
        found == {k \in DOMAIN AdditionalProps :
                    /\ HasAt(msg.props[AdditionalProps[k]])
                    /\ FindEmail(msg.props[AdditionalProps[k]]) # EmptyStr}
    IN  IF withAt # {} THEN msg.props[PossibleProps[SetMin(withAt)]]
        ELSE IF cn_value # EmptyStr /\ ~IsGuid(cn_value)
        THEN IF domain # EmptyStr THEN cn_value \o <<"@">> \o domain
             ELSE cn_value
        ELSE IF msg.headers_exc = "none" /\ from_match # EmptyStr THEN from_match
        ELSE IF msg.headers_exc = "none" /\ reply_to_match # EmptyStr
        THEN reply_to_match
        ELSE IF found # {}
        THEN FindEmail(msg.props[AdditionalProps[SetMin(found)]])
        ELSE clean_exchange_dn(original_dn)

\* resolve_sender_address(msg, original_dn). msg.props[id] is what
\* get_property_from_record_sets returns for id ("" when the property is
\* absent or its access raises); msg.headers_exc names the exception of
\* reading or searching transport_headers ("none": msg.headers are its
\* lines).
resolve_sender_address(msg, original_dn) ==
    LET withAt == {k \in DOMAIN PossibleProps : HasAt(msg.props[PossibleProps[k]])}
        from_match == HeaderAddress(msg.headers, <<"f","r","o","m",":">>)
        reply_to_match == HeaderAddress(msg.headers, <<"r","e","p","l","y","-","t","o",":">>)
        cn_value == DnToken(original_dn, KeyCn)
        domain == extract_domain_from_dn(original_dn)
        found == {k \in DOMAIN AdditionalProps :
                    /\ HasAt(msg.props[AdditionalProps[k]])
                    /\ FindEmail(msg.props[AdditionalProps[k]]) # EmptyStr}
    IN  IF withAt # {} THEN msg.props[PossibleProps[SetMin(withAt)]]
        ELSE IF msg.headers_exc = "none" /\ from_match # EmptyStr THEN from_match
        ELSE IF msg.headers_exc = "none" /\ reply_to_match # EmptyStr
        THEN reply_to_match
        ELSE IF cn_value # EmptyStr /\ ~IsGuid(cn_value)
        THEN IF domain # EmptyStr THEN cn_value \o <<"@">> \o domain
             ELSE cn_value
        ELSE IF found # {}
        THEN FindEmail(msg.props[AdditionalProps[SetMin(found)]])
        ELSE clean_exchange_dn(original_dn)

\* a handler that lets every exception of the header search through
HeaderHandlerCatches_Nothing(exc) == FALSE

\* "except Exception" around the header search (helper.py:201)
HeaderHandlerCatches(exc) == exc \notin {"KeyboardInterrupt", "SystemExit"}

\* the exception that leaves resolve_sender_address(msg, original_dn):
\* the header search is the only step outside the reach of the property
\* reader's own handlers, and it runs when no alternative property has '@'
resolve_sender_address_raises(msg) ==
    LET withAt == {k \in DOMAIN PossibleProps : HasAt(msg.props[PossibleProps[k]])}
    IN  IF /\ withAt = {}
           /\ msg.headers_exc # "none"
           /\ ~HeaderHandlerCatches(msg.headers_exc)
        THEN msg.headers_exc
        ELSE "none"

\* get_sender_from_address(msg): the pair (sender_address, from_address),
\* or the exception that leaves the call
get_sender_from_address(msg) ==
    LET sender_email == msg.props[PR_SENDER_EMAIL_ADDRESS]
        from_email == msg.props[PR_FROM_EMAIL_ADDRESS]
        Resolves(value) == value # EmptyStr /\ ~HasAt(value)
        Address(value) ==
            IF HasAt(value) THEN value ELSE resolve_sender_address(msg, value)
        raised == IF Resolves(sender_email) \/ Resolves(from_email)
                  THEN resolve_sender_address_raises(msg) ELSE "none"
    IN  IF raised # "none"
        THEN [raised |-> raised, sender_address |-> EmptyStr,
              from_address |-> EmptyStr]
        ELSE [raised |-> "none",
              sender_address |->
                IF sender_email # EmptyStr THEN Address(sender_email)
                ELSE EmptyStr,
              from_address |->
                IF from_email # EmptyStr THEN Address(from_email)
                ELSE sender_email]

(***************************************************************************)
(* Recipient lists from the transport headers (src/src/helper.py).         *)
(***************************************************************************)
\* the printable ASCII characters in code-point order, from the space on
\* (the quotation mark, the backslash and the grave accent by code point)
Printable ==
    <<" ", "!", "U+0022", "#", "$", "%", "&", "'", "(", ")", "*", "+",
      ",", "-", ".", "/", "0", "1", "2", "3", "4", "5", "6", "7", "8",
      "9", ":", ";", "<", "=", ">", "?", "@", "A", "B", "C", "D", "E",
      "F", "G", "H", "I", "J", "K", "L", "M", "N", "O", "P", "Q", "R",
      "S", "T", "U", "V", "W", "X", "Y", "Z", "[", "U+005C", "]", "^",
      "_", "U+0060", "a", "b", "c", "d", "e", "f", "g", "h", "i", "j", "k",
      "l", "m", "n", "o", "p", "q", "r", "s", "t", "u", "v", "w", "x",
      "y", "z", "{", "|", "}", "~">>

OrdTable == [c \in {Printable[i] : i \in DOMAIN Printable} |->
                31 + CHOOSE i \in DOMAIN Printable : Printable[i] = c]

\* ord(c): every character outside ASCII sorts after every ASCII character
Ord(c) == IF c \in DOMAIN OrdTable THEN OrdTable[c] ELSE 128

\* a < b for two Python strings
TextLess(a, b) ==
    \E i \in 1..(Len(a) + 1) :
        /\ i <= Len(b)
        /\ \A j \in 1..(i - 1) : a[j] = b[j]
        /\ i = Len(a) + 1 \/ Ord(a[i]) < Ord(b[i])

RECURSIVE SortTexts(_)
\* sorted(S) for a set of strings
SortTexts(S) ==
    IF S = {} THEN << >>
    ELSE LET least == CHOOSE x \in S : \A y \in S : ~TextLess(y, x)
         IN  <<least>> \o SortTexts(S \ {least})

RECURSIVE JoinTexts(_, _)
\* sep.join(items)
JoinTexts(items, sep) ==
    IF items = << >> THEN EmptyStr
    ELSE IF Len(items) = 1 THEN items[1]
    ELSE items[1] \o sep \o JoinTexts(Tail(items), sep)

\* text.strip() for the blank character
Strip(text) ==
    LET solid == {i \in DOMAIN text : text[i] # " "}
    IN  IF solid = {} THEN EmptyStr
        ELSE SubSeq(text, SetMin(solid), SetMax(solid))

EncodedWord == <<"=","?","u","t","f","-","8","?","B","?","7","Z","m","N","?","=">>

\* _decode_name(raw_name): an RFC 2047 encoded word is replaced by the
\* text it encodes, any other name is returned as it is
decode_name(raw_name) ==
    IF raw_name = EncodedWord THEN <<"U+D64D">> ELSE raw_name

\* fmt(pairs) of recipients_from_headers
fmt(pairs) ==
    LET Text(pair) ==
            LET name == Strip(decode_name(pair.name))
            IN  IF name # EmptyStr
                THEN name \o <<" ", "<">> \o pair.addr \o <<">">>
                ELSE pair.addr
    IN  JoinTexts(SortTexts({Text(pairs[i]) : i \in DOMAIN pairs}),
                  <<";", " ">>)

RECURSIVE Flatten(_)
Flatten(lists) ==
    IF lists = << >> THEN << >> ELSE Head(lists) \o Flatten(Tail(lists))

\* a reading of the header fields that takes the pairs of every field
get_all_pairs_AnyField(hdr, name) ==
    Flatten([i \in DOMAIN hdr |-> hdr[i].pairs])

\* email.utils.getaddresses(hdr.get_all(name, [])): the (name, address)
\* pairs of the fields called name, whatever the case of the letters, in
\* the order of the fields
get_all_pairs(hdr, name) ==
    Flatten([i \in DOMAIN hdr |->
                IF StrLower(hdr[i].name) = name THEN hdr[i].pairs ELSE << >>])

\* recipients_from_headers(raw_headers): raw.fields are the fields the
\* parser finds in the text, raw.parse_raises tells that parsing raises
recipients_from_headers(raw) ==
    LET to_pairs == IF raw.parse_raises THEN << >>
                    ELSE get_all_pairs(raw.fields, <<"t", "o">>)
        cc_pairs == IF raw.parse_raises THEN << >>
                    ELSE get_all_pairs(raw.fields, <<"c", "c">>)
    IN  [to |-> fmt(to_pairs), cc |-> fmt(cc_pairs)]

(***************************************************************************)
(* Encoding normaliser (src/src/helper.py, byte_decode). A byte is a       *)
(* number in 0..255, a text is a sequence of code points.                  *)
(***************************************************************************)
\* the codecs Python knows among the names used below
KnownCodecs == {"utf-8", "cp949", "euc-kr", "iso-8859-1", "windows-1252"}

\* the code point of the two-byte sequence lead, trail under codec enc, or
\* -1 when the pair is no character of enc. UTF-8: a lead byte C2..DF and a
\* continuation byte 80..BF. The Korean codecs: the entries of their tables
\* for the bytes C3 and A9 as lead byte.
PairPoint(enc, lead, trail) ==
    CASE enc = "utf-8" ->
            IF lead \in 194..223 /\ trail \in 128..191
            THEN (lead - 192) * 64 + (trail - 128) ELSE -1
      [] enc = "cp949" ->
            CASE <<lead, trail>> = <<195, 65>> -> 54845
              [] <<lead, trail>> = <<195, 195>> -> 52425
              [] <<lead, trail>> = <<195, 169>> -> 52309
              [] <<lead, trail>> = <<169, 65>> -> 52165
              [] <<lead, trail>> = <<169, 195>> -> 12818
              [] <<lead, trail>> = <<169, 169>> -> 322
              [] OTHER -> -1
      [] enc = "euc-kr" ->
            CASE <<lead, trail>> = <<195, 195>> -> 52425
              [] <<lead, trail>> = <<195, 169>> -> 52309
              [] <<lead, trail>> = <<169, 195>> -> 12818
              [] <<lead, trail>> = <<169, 169>> -> 322
              [] OTHER -> -1
      [] OTHER -> -1

\* the code point of the single byte b under enc, or -1: ASCII under every
\* codec, every byte under the two single-byte codecs (whose tables agree
\* outside 80..9F, bytes that are not drawn here)
BytePoint(enc, b) ==
    IF b < 128 \/ enc \in {"iso-8859-1", "windows-1252"} THEN b ELSE -1

RECURSIVE DecodeFrom(_, _, _)
\* bytes.decode(enc, "replace") from position i on: an undecodable byte
\* becomes U+FFFD
DecodeFrom(bytes, enc, i) ==
    IF i > Len(bytes) THEN << >>
    ELSE IF BytePoint(enc, bytes[i]) >= 0
    THEN <<BytePoint(enc, bytes[i])>> \o DecodeFrom(bytes, enc, i + 1)
    ELSE IF i < Len(bytes) /\ PairPoint(enc, bytes[i], bytes[i + 1]) >= 0
    THEN <<PairPoint(enc, bytes[i], bytes[i + 1])>>
         \o DecodeFrom(bytes, enc, i + 2)
    ELSE <<65533>> \o DecodeFrom(bytes, enc, i + 1)

RECURSIVE Decodable(_, _, _)
\* bytes.decode(enc) does not raise UnicodeDecodeError
Decodable(bytes, enc, i) ==
    IF i > Len(bytes) THEN TRUE
    ELSE IF BytePoint(enc, bytes[i]) >= 0 THEN Decodable(bytes, enc, i + 1)
    ELSE IF i < Len(bytes) /\ PairPoint(enc, bytes[i], bytes[i + 1]) >= 0
    THEN Decodable(bytes, enc, i + 2)
    ELSE FALSE

RECURSIVE EncodeUtf8(_)
\* text.encode("utf_8") for code points of the basic plane
EncodeUtf8(text) ==
    IF text = << >> THEN << >>
    ELSE LET cp == Head(text)
         IN  (IF cp < 128 THEN <<cp>>
              ELSE IF cp < 2048 THEN <<192 + (cp \div 64), 128 + (cp % 64)>>
              ELSE <<224 + (cp \div 4096), 128 + ((cp \div 64) % 64),
                     128 + (cp % 64)>>)
             \o EncodeUtf8(Tail(text))

\* a candidate loop that stops at the last candidate that accepts
FirstAccepting_Last(accepting) == SetMax(accepting)

\* the candidate loop returns at the first candidate that accepts
FirstAccepting(accepting) == SetMin(accepting)

\* byte_decode(data, trial_encs) when the detector answers guess ("none":
\* best() is None). data.decl is the label of a charset= declaration
\* ("none": there is none), data.in_head tells that it lies in the first
\* 2048 bytes, data.body are the other bytes; the declaration consists of
\* ASCII bytes, which every codec here decodes to themselves, and is left
\* out of the text. The result tells what is returned (kind "str" or
\* "bytes") or raised (kind "raise"), and by which step.
byte_decode(data, trial_encs, guess) ==
    LET body == data.body
        accepting == {k \in DOMAIN trial_encs :
                        /\ trial_encs[k] \in KnownCodecs
                        /\ Decodable(body, trial_encs[k], 1)}
        unknown == {k \in DOMAIN trial_encs : trial_encs[k] \notin KnownCodecs}
        Reached(k) == \A j \in unknown : k < j
    IN  IF data.decl # "none" /\ data.in_head /\ data.decl \in KnownCodecs
        THEN [kind |-> "str", step |-> "declaration", enc |-> data.decl,
              value |-> DecodeFrom(body, data.decl, 1)]
        ELSE IF accepting # {} /\ Reached(FirstAccepting(accepting))
        THEN [kind |-> "str", step |-> "candidate",
              enc |-> trial_encs[FirstAccepting(accepting)],
              value |-> DecodeFrom(body,
                            trial_encs[FirstAccepting(accepting)], 1)]
        ELSE IF unknown # {}
        THEN [kind |-> "raise", step |-> "candidate",
              enc |-> trial_encs[SetMin(unknown)], value |-> << >>]
        ELSE IF guess = "none"
        THEN [kind |-> "raise", step |-> "detector", enc |-> "none",
              value |-> << >>]
        ELSE [kind |-> "bytes", step |-> "detector", enc |-> guess,
              value |-> EncodeUtf8(DecodeFrom(body, guess, 1))]

(***************************************************************************)
(* Property resolver (src/src/helper.py). A value read from the archive is *)
(* "" (empty), "None" (absent) or a text; an accessor may also raise.      *)
(***************************************************************************)
PR_MESSAGE_CLASS == "0x001A"

\* the truth value Python gives a value read from the archive
Truthy(value) == value \notin {"", "None"}

RECURSIVE ScanEntries(_, _)
\* the loops of get_property_from_record_sets over the entries of all
\* record sets, in order. entry.das is what entry.data_as_string yields or
\* the exception its access raises; entry.backup is what the decoding of
\* entry.data returns ("skip": no data, or a value type that is not a
\* string type, so that the loop goes on).
ScanEntries(entries, property_id) ==
    IF entries = << >> THEN ""
    ELSE LET entry == Head(entries)
         IN  IF entry.entry_type # property_id
             THEN ScanEntries(Tail(entries), property_id)
             ELSE IF entry.das = "IOError" THEN ""
             ELSE IF entry.das # "AttributeError" THEN entry.das
             ELSE IF entry.backup # "skip" THEN entry.backup
             ELSE ScanEntries(Tail(entries), property_id)

\* get_property_from_record_sets(msg, property_id); msg.sets_raise tells
\* that reading msg.record_sets raises
get_property_from_record_sets(msg, property_id) ==
    IF msg.sets_raise THEN "" ELSE ScanEntries(msg.entries, property_id)

\* get_message_class(msg) with its three strategies: msg.attr is what the
\* attribute message_class yields, msg.method what the method
\* get_message_class() returns ("absent": there is no such method), or the
\* exception raised
get_message_class_strategies(msg) ==
    IF msg.attr # "IOError" /\ Truthy(msg.attr) THEN msg.attr
    ELSE IF msg.method \notin {"absent", "IOError"} /\ Truthy(msg.method)
    THEN msg.method
    ELSE get_property_from_record_sets(msg, PR_MESSAGE_CLASS)

(***************************************************************************)
(* Attachment names: find_attach_name and the decoders it calls.  Raw data *)
(* are byte sequences, texts are sequences of code points.                 *)
(***************************************************************************)
PR_ATTACH_LONG_FILENAME == "0x3707"
PR_ATTACH_FILENAME == "0x3704"
PR_DISPLAY_NAME == "0x3001"
PR_ATTACH_EXTENSION == "0x3703"

\* bytes.decode("utf-16-le"): one code unit for every two bytes
Utf16Le(bytes) ==
    [k \in 1..(Len(bytes) \div 2) |-> bytes[2 * k - 1] + (256 * bytes[2 * k])]

\* bytes.decode("utf-16-le") does not raise: an even number of bytes and no
\* surrogate code unit
Utf16Decodable(bytes) ==
    /\ Len(bytes) % 2 = 0
    /\ \A k \in DOMAIN Utf16Le(bytes) : Utf16Le(bytes)[k] \notin 55296..57343

\* text.rstrip("\x00")
RStripNul(text) ==
    SubSeq(text, 1, SetMax({0} \cup {k \in DOMAIN text : text[k] # 0}))

\* text.strip(): white space is removed at both ends
PyStrip(text) ==
    LET ws == (9..13) \cup (28..32) \cup {133, 160}
        kept == {k \in DOMAIN text : text[k] \notin ws}
    IN  IF kept = {} THEN << >> ELSE SubSeq(text, SetMin(kept), SetMax(kept))

\* decode_mapi_string(raw) for bytes: UTF-16LE, then UTF-8, then Latin-1
decode_mapi_string(raw) ==
    IF Utf16Decodable(raw) THEN RStripNul(Utf16Le(raw))
    ELSE IF Decodable(raw, "utf-8", 1)
    THEN RStripNul(DecodeFrom(raw, "utf-8", 1))
    ELSE RStripNul(DecodeFrom(raw, "iso-8859-1", 1))

\* the prefix of a name that was not decoded
Sentinel == <<95, 95, 95>>

\* result and not result.startswith('___')
Usable(result) == result # << >> /\ ~StartsWith(result, Sentinel)

\* decode_mapi_string_enhanced(raw_data, entry_type): five methods in turn,
\* the second and the third cutting a terminator off raw_data for the
\* methods after them. found = FALSE stands for None.
decode_mapi_string_enhanced(raw_data) ==
    LET n == Len(raw_data)
        m1 == decode_mapi_string(raw_data)
        raw2 == IF n >= 2 /\ SubSeq(raw_data, n - 1, n) = <<0, 0>>
                THEN SubSeq(raw_data, 1, n - 2) ELSE raw_data
        m2 == PyStrip(Utf16Le(raw2))
        raw3 == IF raw2 # << >> /\ raw2[Len(raw2)] = 0
                THEN SubSeq(raw2, 1, Len(raw2) - 1) ELSE raw2
        m3 == PyStrip(DecodeFrom(raw3, "utf-8", 1))
        m4 == PyStrip(DecodeFrom(raw3, "cp949", 1))
        m5 == PyStrip(DecodeFrom(raw3, "iso-8859-1", 1))
    IN  IF raw_data = << >> THEN [found |-> FALSE, text |-> << >>]
        ELSE IF Usable(m1) THEN [found |-> TRUE, text |-> m1]
        ELSE IF Utf16Decodable(raw2) /\ Usable(m2)
        THEN [found |-> TRUE, text |-> m2]
        ELSE IF Decodable(raw3, "utf-8", 1) /\ Usable(m3)
        THEN [found |-> TRUE, text |-> m3]
        ELSE IF Decodable(raw3, "cp949", 1) /\ Usable(m4)
        THEN [found |-> TRUE, text |-> m4]
        ELSE IF Usable(m5) THEN [found |-> TRUE, text |-> m5]
        ELSE [found |-> FALSE, text |-> << >>]

\* the properties find_attach_name looks for
wanted ==
    {PR_ATTACH_LONG_FILENAME, PR_ATTACH_FILENAME, PR_DISPLAY_NAME,
     PR_ATTACH_EXTENSION}

\* what the entry at position k of the record sets yields inside the try:
\* nothing when get_data raises
EntryName(ent) ==
    IF ent.get_data_raises THEN [found |-> FALSE, text |-> << >>]
    ELSE decode_mapi_string_enhanced(ent.data)

\* find_attach_name(att): the entries are visited in the order in which
\* they are stored; the first entry of a wanted property that decodes to a
\* name ends the search
find_attach_name(att) ==
    LET hits == {k \in DOMAIN att.entries :
                    /\ att.entries[k].entry_type \in wanted
                    /\ EntryName(att.entries[k]).found}
    IN  IF hits = {} THEN [found |-> FALSE, text |-> << >>]
        ELSE EntryName(att.entries[SetMin(hits)])

\* the name part of extract_attachments for one attachment: raw_name, and
\* whether att.get_name() was called
attach_raw_name(att) ==
    LET first == find_attach_name(att)
        fallback == ~first.found \/ StartsWith(first.text, Sentinel)
        alt_name == att.get_name
        taken == /\ fallback
                 /\ alt_name.kind = "str"
                 /\ Usable(alt_name.text)
    IN  [found |-> first.found \/ taken,
         text |-> IF taken THEN alt_name.text ELSE first.text,
         probed |-> fallback /\ alt_name.kind # "absent"]


(***************************************************************************)
(* Attachment materialiser (src/src/helper.py).                            *)
(***************************************************************************)
ImageExts ==
    { <<"p","n","g">>, <<"j","p","g">>, <<"j","p","e","g">>, <<"g","i","f">>,
      <<"b","m","p">>, <<"t","i","f","f">>, <<"w","m","f">>, <<"e","m","f">> }

\* the pattern without re.I
IsAutoInline_CaseSensitive(name) ==
    LET n == name IN
        /\ Len(n) > 9
        /\ SubSeq(n, 1, 5) = <<"i","m","a","g","e">>
        /\ \A i \in 6..8 : IsDigit(n[i])
        /\ n[9] = "."
        /\ SubSeq(n, 10, Len(n)) \in ImageExts

\* ^image\d{3}\.(png|jpg|jpeg|gif|bmp|tiff|wmf|emf)$ with re.I
IsAutoInline(name) ==
    LET n == StrLower(name) IN
        /\ Len(n) > 9
        /\ SubSeq(n, 1, 5) = <<"i","m","a","g","e">>
        /\ \A i \in 6..8 : IsDigit(n[i])
        /\ n[9] = "."
        /\ SubSeq(n, 10, Len(n)) \in ImageExts

\* Path(name).suffix: from the last dot on, when that dot is not the first
\* character
Suffix(name) ==
    LET dots == {i \in 2..Len(name) : name[i] = "."} IN
        IF dots = {} THEN EmptyStr
        ELSE LET last_dot == CHOOSE i \in dots : \A j \in dots : j <= i
             IN  SubSeq(name, last_dot, Len(name))

\* make_physical_file_name(prefix, ext): prefix _ microseconds ext
make_physical_file_name(prefix, micros, ext) ==
    [prefix |-> prefix, micros |-> micros, sfx |-> << >>, ext |-> ext]

\* a materialiser that writes to the generated path whatever is there
FreePath_AsGenerated(save_path, dup, dsk) == save_path

\* while save_path.exists(): save_path = with_stem(stem + "_" + dup); dup += 1
RECURSIVE FreePath(_, _, _)
FreePath(save_path, dup, dsk) ==
    IF save_path \in dsk
    THEN FreePath([save_path EXCEPT !.name.sfx = Append(@, dup)], dup + 1, dsk)
    ELSE save_path

\* safe_get_attachment_count(msg): -1 when the reader raises
safe_get_attachment_count(m) ==
    IF m.count_raises THEN -1 ELSE Len(m.atts)

\* extract_attachments: the loop over the attachments from index i on;
\* get_attachment is not guarded, an unreadable payload skips the attachment
RECURSIVE ExtractLoop(_, _, _, _, _)
ExtractLoop(atts, dir, email_id, results, dsk) ==
    IF atts = << >> THEN [raised |-> FALSE, results |-> results, disk |-> dsk]
    ELSE LET att == Head(atts)
             name == att.name
             physical_file_name ==
                 make_physical_file_name(email_id, att.micros, Suffix(name))
             save_path ==
                 FreePath([dir |-> dir, name |-> physical_file_name], 1, dsk)
         IN  IF att.get_raises
             THEN [raised |-> TRUE, results |-> results, disk |-> dsk]
             ELSE IF IsAutoInline(name) \/ att.read_raises
             THEN ExtractLoop(Tail(atts), dir, email_id, results, dsk)
             ELSE ExtractLoop(Tail(atts), dir, email_id,
                     Append(results,
                            [email_id |-> email_id,
                             org_file_name |-> name,
                             phy_file_name |-> physical_file_name,
                             save_folder |-> dir,
                             file_size |-> att.size]),
                     dsk \cup {save_path})

extract_attachments(m, dir, email_id, dsk) ==
    ExtractLoop(m.atts, dir, email_id, << >>, dsk)

(***************************************************************************)
(* Record building (src/src/main.py, extract_email_data).                  *)
(***************************************************************************)
NoteCountFailed == "attachment count failed"

\* extract_email_data(msg, folder_path) against the disk dsk. The fields the
\* properties below do not read (subject, names, addresses, recipients,
\* times, content) are left out of the record.
extract_email_data(m, folder_path, dsk) ==
    LET email_id == ToStr(m.identifier)
        base == [email_id |-> email_id,
                 msg_kind |-> determine_message_kind(m.flags, folder_path),
                 folder_path |-> folder_path]
        ex == extract_attachments(m, m.ymd, email_id, dsk)
    IN  IF m.accessor_raises
        THEN [raised |-> TRUE, record |-> << >>, disk |-> dsk]
        ELSE IF safe_get_attachment_count(m) < 0
        THEN [raised |-> FALSE, disk |-> dsk,
              record |-> base @@ [note |-> NoteCountFailed]]
        ELSE IF ex.raised
        THEN [raised |-> TRUE, record |-> << >>, disk |-> ex.disk]
        ELSE [raised |-> FALSE, disk |-> ex.disk,
              record |-> base @@ [note |-> "None",
                                  attach_files |-> ex.results]]



(***************************************************************************)
(* The archive, as the reader exposes it. The tree is the heap-shaped tree *)
(* on 1..NumFolders: folder 1 is the root, the children of f are 2f and    *)
(* 2f+1. What a message carries is drawn when the walk reads it.           *)
(***************************************************************************)
Folders == 1..NumFolders

\* folder.sub_folders, in the order the reader yields them
SubFolders(f) ==
    IF 2 * f + 1 <= NumFolders THEN <<2 * f, 2 * f + 1>>
    ELSE IF 2 * f <= NumFolders THEN <<2 * f>>
    ELSE << >>

\* number of items folder.sub_messages yields: MsgsPerFolder in the root,
\* one in every other folder
MsgCount(f) == IF f = 1 THEN MsgsPerFolder ELSE 1

\* msg.identifier of the i-th message of folder f
MsgId(f, i) == 10 * f + i

StrRoot == <<"R","o","o","t">>
StrInbox == <<"I","n","b","o","x">>
StrSentItems == <<"S","e","n","t"," ","I","t","e","m","s">>
ClsNote == <<"I","P","M",".","N","o","t","e">>
ClsNoteReceipt == <<"I","P","M",".","N","O","T","E",".","R">>
ClsTask == <<"I","P","M",".","T","a","s","k">>
NameText == <<"a",".","t","x","t">>
NameInline == <<"i","m","a","g","e","0","0","2",".","p","n","g">>
NameInlineUpper == <<"I","m","a","g","e","0","0","1",".","J","P","G">>
NameFourDigits == <<"i","m","a","g","e","0","0","2","2",".","p","n","g">>

\* folder.name: the root is called Root, its first child and every other
\* even folder Sent Items, the odd ones Inbox
FolderName(f) ==
    IF f = 1 THEN StrRoot
    ELSE IF f % 2 = 0 THEN StrSentItems
    ELSE StrInbox

FlagTexts == {EmptyStr, <<"6","4">>, <<"6","5">>, <<"3","2">>, <<"x">>}
Dates == {"2024-01-01"}

\* what one attachment of a message can be: a file whose payload is read
\* and written (at one of the clock readings), an auto-generated inline
\* image, an attachment whose payload cannot be read, one the reader cannot
\* hand out
AttVariants ==
    {[name |-> NameText, micros |-> u, size |-> 1,
      get_raises |-> FALSE, read_raises |-> FALSE] : u \in 0..(MaxMicros - 1)}
    \cup {[name |-> n, micros |-> 0, size |-> 1,
           get_raises |-> FALSE, read_raises |-> FALSE] :
            n \in {NameInline, NameInlineUpper, NameFourDigits}}
    \cup {[name |-> NameText, micros |-> 0, size |-> 1,
           get_raises |-> FALSE, read_raises |-> TRUE],
          [name |-> NameText, micros |-> 0, size |-> 1,
           get_raises |-> TRUE, read_raises |-> FALSE]}

AttLists(maxAtt) == UNION {[1..n -> AttVariants] : n \in 0..maxAtt}

Msg(id, attr, entry, flags, acc, cnt, atts, ymd) ==
    [identifier |-> id, message_class |-> attr, entry_class |-> entry,
     flags |-> flags, accessor_raises |-> acc, count_raises |-> cnt,
     atts |-> atts, ymd |-> ymd]

\* the messages the reader may yield under the identifier id, with flags
\* among flagTexts and attachments among attLists: items that are no mail,
\* mail items one of whose accessors raises, mail items whose attachment
\* count cannot be read, and mail items with their attachments. What the
\* code does not read on a path is held fixed there.
MessagesWithId(id, flagTexts, attLists) ==
    {Msg(id, EmptyStr, c, EmptyStr, FALSE, FALSE, << >>, d) :
        c \in {EmptyStr, ClsTask}, d \in Dates}
    \cup {Msg(id, ClsNote, EmptyStr, EmptyStr, TRUE, FALSE, << >>, d) :
        d \in Dates}
    \cup {Msg(id, EmptyStr, ClsNoteReceipt, fl, FALSE, TRUE, << >>, d) :
        fl \in flagTexts, d \in Dates}
    \cup {Msg(id, ClsNote, ClsTask, fl, FALSE, FALSE, atts, d) :
        fl \in flagTexts, atts \in attLists, d \in Dates}

\* an input that injects a failure: an accessor, the attachment count, an
\* attachment or a statement of the store fails
Faulty(m, failAt) ==
    \/ m.accessor_raises
    \/ m.count_raises
    \/ \E i \in DOMAIN m.atts : m.atts[i].get_raises \/ m.atts[i].read_raises
    \/ failAt > 0

(***************************************************************************)
(* Exception handlers.                                                     *)
(***************************************************************************)
\* "except Exception" catches everything but the BaseException-only classes
CaughtByExceptException(exc) ==
    exc \notin {"KeyboardInterrupt", "SystemExit"}

\* a handler around one message that would catch the error of the store only
MessageHandlerCatches_StoreOnly(exc) == exc = "DBWriteError"

\* src/src/main.py:217 around one message
MessageHandlerCatches(exc) == CaughtByExceptException(exc)
\* src/src/main.py:231 around one sub folder
SubFolderHandlerCatches(exc) == CaughtByExceptException(exc)
\* src/src/main.py:235 around the body of the walk of one folder
FolderHandlerCatches(exc) == CaughtByExceptException(exc)
\* src/src/main.py:281 in main
MainHandlerCatches(exc) == CaughtByExceptException(exc)

(***************************************************************************)
(* The call stack of walk_and_extract_emails: one frame per folder being   *)
(* walked, the innermost last.                                             *)
(***************************************************************************)
Top(stk) == stk[Len(stk)]
Pop(stk) == SubSeq(stk, 1, Len(stk) - 1)
ReplaceTop(stk, fr) == [stk EXCEPT ![Len(stk)] = fr]

\* a call whose callee would wait until its callers have finished
PushFrame_Deferred(stk, fr) == <<fr>> \o stk

\* the recursive call: the callee runs to its end before the caller resumes
PushFrame(stk, fr) == Append(stk, fr)

\* current_path of a folder called name, walked with folder_path
CurrentPath(folder_path, name) ==
    IF folder_path # EmptyStr THEN folder_path \o <<"/">> \o name
    ELSE IF name # StrRoot THEN name ELSE EmptyStr

NewFrame(f, folder_path, name) ==
    [folder |-> f, path |-> CurrentPath(folder_path, name),
     phase |-> "msgs", idx |-> 1]

\* a loop that would stay on its item
AdvanceFrame_Stay(fr) == fr

\* the for loop moves to its next item
AdvanceFrame(fr) == [fr EXCEPT !.idx = @ + 1]

\* the message loop is over: the sub folder loop starts
ToSubFolders(fr) == [fr EXCEPT !.phase = "subs", !.idx = 1]

\* an exception raised in the body of the walk of the innermost folder,
\* outside the handlers of its loops: the folder's handler ends that walk,
\* else the caller's sub folder handler gets it, and so on outwards
RECURSIVE UnwindFolder(_, _)
UnwindFolder(stk, exc) ==
    IF stk = << >> THEN [stack |-> << >>, escaped |-> TRUE]
    ELSE IF FolderHandlerCatches(exc) THEN [stack |-> Pop(stk), escaped |-> FALSE]
    ELSE IF Pop(stk) = << >> THEN [stack |-> << >>, escaped |-> TRUE]
    ELSE IF SubFolderHandlerCatches(exc)
         THEN [stack |-> Pop(stk), escaped |-> FALSE]
         ELSE UnwindFolder(Pop(stk), exc)

\* an exception raised while one message is handled
UnwindMessage(stk, exc) ==
    IF MessageHandlerCatches(exc)
    THEN [stack |-> ReplaceTop(stk, AdvanceFrame(Top(stk))), escaped |-> FALSE]
    ELSE UnwindFolder(stk, exc)

(***************************************************************************)
(* One message of the message loop (src/src/main.py:209-219).              *)
(***************************************************************************)
NoSave ==
    [called |-> FALSE, pre |-> EmptyStore({}), batch |-> << >>, failAt |-> 0,
     raised |-> "none", stmts |-> 0]

SaveCall(pre, batch, failAt, s) ==
    [called |-> TRUE, pre |-> pre, batch |-> batch, failAt |-> failAt,
     raised |-> s.raised, stmts |-> s.stmts]

\* what handling the message m in the folder of path folder_path does to
\* the store st and the disk dsk, and the exception it ends with
HandleMessage(m, folder_path, st, dsk, failAt) ==
    LET b == extract_email_data(m, folder_path, dsk)
        s == SaveEmailDataToDb(st, <<b.record>>, TRUE, failAt)
    IN  IF ~IsMailItem(get_message_class(m))
        THEN [outcome |-> "skipped", exc |-> "none", record |-> << >>,
              store |-> st, disk |-> dsk, save |-> NoSave]
        ELSE IF b.raised
        THEN [outcome |-> "build_failed", exc |-> "Exception",
              record |-> << >>, store |-> st, disk |-> b.disk,
              save |-> NoSave]
        ELSE [outcome |-> IF s.raised = "none" THEN "saved" ELSE "save_failed",
              exc |-> s.raised, record |-> b.record,
              store |-> s.store, disk |-> b.disk,
              save |-> SaveCall(st, <<b.record>>, failAt, s)]

(***************************************************************************)
(* State.                                                                  *)
(***************************************************************************)
VARIABLES
    pc,          \* where main() is: start, setup, open, root, call_walk,
                 \* walk, exited; message, handled and batch, written when
                 \* one message or one batch is handled on its own
    exitCode,    \* exit status of the process, -1 while it runs
    exitCause,   \* why the process ended
    handle,      \* the archive handle pf: none, open, closed
    stack,       \* call stack of walk_and_extract_emails
    store,       \* the database: rows of fund_mail and fund_mail_attach
    disk,        \* the attachment files written
    entered,     \* history: the folders whose walk was started, in order
    log,         \* history: the messages the message loop handled, in order
    last,        \* history: the last message handled
    lastSave,    \* history: the last call of save_email_data_to_db
    failures,    \* injected failures so far
    enumFailures,\* of these, failures of a folder's name or enumeration
    call         \* history: the last call of a helper function on its own

vars == <<pc, exitCode, exitCause, handle, stack, store, disk, entered, log,
          last, lastSave, failures, enumFailures, call>>

NoCall == [fn |-> "none"]

NoMessage ==
    [identifier |-> 0, msg_class |-> EmptyStr, flags |-> EmptyStr,
     folder_path |-> EmptyStr, count_raises |-> FALSE,
     outcome |-> "none", exc |-> "none", record |-> << >>,
     store_before |-> EmptyStore({}), disk_before |-> {}, atts |-> << >>]

\* create_db_tables: CREATE TABLE IF NOT EXISTS leaves an existing table alone
create_db_tables(st) ==
    IF st.attachCols = {} THEN [st EXCEPT !.attachCols = AttachTableColumns]
    ELSE st

\* the database file before the run: no table yet, or the (empty) tables an
\* earlier version of the tool created
StoresBeforeRun == {EmptyStore({}), EmptyStore(LegacyAttachTableColumns)}

Init ==
    /\ pc = "start"
    /\ exitCode = -1
    /\ exitCause = "running"
    /\ handle = "none"
    /\ stack = << >>
    /\ store \in StoresBeforeRun
    /\ disk = {}
    /\ entered = << >>
    /\ log = << >>
    /\ last = NoMessage
    /\ lastSave = NoSave
    /\ failures = 0
    /\ enumFailures = 0
    /\ call = NoCall

\* a process that would report success whatever ended it
ExitCodeFor_AlwaysZero(cause) == 0

\* sys.exit(1) / the end of main / an exception nobody catches
ExitCodeFor(cause) ==
    IF cause = "done" THEN 0
    ELSE IF cause = "interrupt" THEN 130
    ELSE 1

Exit(cause) ==
    /\ pc' = "exited"
    /\ exitCause' = cause
    /\ exitCode' = ExitCodeFor(cause)

(***************************************************************************)
(* main() (src/src/main.py:251-289).                                       *)
(***************************************************************************)
\* if not os.path.exists(pst_path): sys.exit(1)
MainCheckPath ==
    /\ pc = "start"
    /\ \/ Exit("missing_file")
       \/ pc' = "setup" /\ UNCHANGED <<exitCode, exitCause>>
    /\ UNCHANGED <<handle, stack, store, disk, entered, log, last, lastSave,
                   failures, enumFailures, call>>

\* create_db_path, create_db_tables: outside the try, an error ends the run
MainSetupDb ==
    /\ pc = "setup"
    /\ \/ Exit("db_setup_error") /\ UNCHANGED store
       \/ /\ pc' = "open"
          /\ store' = create_db_tables(store)
          /\ UNCHANGED <<exitCode, exitCause>>
    /\ UNCHANGED <<handle, stack, disk, entered, log, last, lastSave,
                   failures, enumFailures, call>>

\* pf = pypff.file(); pf.open(path)
MainOpen ==
    /\ pc = "open"
    /\ \/ /\ MainHandlerCatches("Exception")
          /\ Exit("open_error")
          /\ UNCHANGED handle
       \/ /\ pc' = "root"
          /\ handle' = "open"
          /\ UNCHANGED <<exitCode, exitCause>>
    /\ UNCHANGED <<stack, store, disk, entered, log, last, lastSave,
                   failures, enumFailures, call>>

\* root_folder = pf.get_root_folder(); if not root_folder: sys.exit(1)
MainGetRoot ==
    /\ pc = "root"
    /\ \/ Exit("no_root")
       \/ MainHandlerCatches("Exception") /\ Exit("root_error")
       \/ pc' = "call_walk" /\ UNCHANGED <<exitCode, exitCause>>
    /\ UNCHANGED <<handle, stack, store, disk, entered, log, last, lastSave,
                   failures, enumFailures, call>>

\* walk_and_extract_emails(db_path, root_folder): the name of the folder is
\* read outside the try of the walk
WalkRoot ==
    /\ pc = "call_walk"
    /\ \/ /\ MainHandlerCatches("Exception")
          /\ Exit("walk_error")
          /\ UNCHANGED <<stack, entered>>
       \/ /\ stack' = PushFrame(stack, NewFrame(1, EmptyStr, FolderName(1)))
          /\ entered' = Append(entered, 1)
          /\ pc' = "walk"
          /\ UNCHANGED <<exitCode, exitCause>>
    /\ UNCHANGED <<handle, store, disk, log, last, lastSave,
                   failures, enumFailures, call>>

\* the walk returned: pf.close(), then the end of main
MainClose ==
    /\ pc = "walk"
    /\ stack = << >>
    /\ \/ /\ MainHandlerCatches("Exception")
          /\ Exit("close_error")
          /\ UNCHANGED handle
       \/ Exit("done") /\ handle' = "closed"
    /\ UNCHANGED <<stack, store, disk, entered, log, last, lastSave,
                   failures, enumFailures, call>>

\* Ctrl-C while the try block of main runs: no handler of the program
\* catches KeyboardInterrupt
KeyboardInterrupt ==
    /\ pc \in {"open", "root", "call_walk", "walk"}
    /\ ~MainHandlerCatches("KeyboardInterrupt")
    /\ Exit("interrupt")
    /\ UNCHANGED <<handle, stack, store, disk, entered, log, last, lastSave,
                   failures, enumFailures, call>>

(***************************************************************************)
(* walk_and_extract_emails (src/src/main.py:195-236).                      *)
(***************************************************************************)
InMessages == pc = "walk" /\ stack # << >> /\ Top(stack).phase = "msgs"
InSubFolders == pc = "walk" /\ stack # << >> /\ Top(stack).phase = "subs"

\* the body of the message loop for the message m: its effect on the store
\* and the disk
MessageStep(m, folder_path, failAt) ==
    LET h == HandleMessage(m, folder_path, store, disk, failAt)
    IN  /\ store' = h.store
        /\ disk' = h.disk
        /\ lastSave' = h.save
        /\ last' = [identifier |-> m.identifier,
                    msg_class |-> get_message_class(m),
                    flags |-> m.flags,
                    folder_path |-> folder_path,
                    count_raises |-> m.count_raises,
                    outcome |-> h.outcome, exc |-> h.exc,
                    record |-> h.record,
                    store_before |-> store, disk_before |-> disk,
                    atts |-> m.atts]

\* one turn of "for msg in folder.sub_messages"; the messages of the walk
\* carry no flags and no attachment, and the storage fails at the first
\* statement of a save or not at all (HandleOne and SaveBatch below cover
\* the rest)
ProcessMessage ==
    /\ InMessages
    /\ Top(stack).idx <= MsgCount(Top(stack).folder)
    /\ \E m \in MessagesWithId(MsgId(Top(stack).folder, Top(stack).idx),
                               {EmptyStr}, {<< >>}),
          failAt \in 0..1 :
        /\ Faulty(m, failAt) => failures < MaxFailures
        /\ failures' = IF Faulty(m, failAt) THEN failures + 1 ELSE failures
        /\ MessageStep(m, Top(stack).path, failAt)
        /\ log' = Append(log, [id |-> m.identifier,
                               folder |-> Top(stack).folder,
                               outcome |-> last'.outcome])
        /\ LET u == UnwindMessage(stack, last'.exc)
           IN  IF last'.exc = "none"
               THEN /\ stack' = ReplaceTop(stack, AdvanceFrame(Top(stack)))
                    /\ UNCHANGED <<pc, exitCode, exitCause>>
               ELSE IF u.escaped
               THEN stack' = u.stack /\ Exit("walk_error")
               ELSE stack' = u.stack /\ UNCHANGED <<pc, exitCode, exitCause>>
    /\ UNCHANGED <<handle, entered, enumFailures, call>>

\* the reader has no more message for this folder
MessagesDone ==
    /\ InMessages
    /\ Top(stack).idx > MsgCount(Top(stack).folder)
    /\ stack' = ReplaceTop(stack, ToSubFolders(Top(stack)))
    /\ UNCHANGED <<pc, exitCode, exitCause, handle, store, disk, entered, log,
                   last, lastSave, failures, enumFailures, call>>

\* one turn of "for sub_folder in folder.sub_folders": the name is read and
\* the sub folder walked, or reading the name raises and the handler of the
\* loop moves on
EnterSubFolder ==
    /\ InSubFolders
    /\ Top(stack).idx <= Len(SubFolders(Top(stack).folder))
    /\ LET fr == Top(stack)
           sub == SubFolders(fr.folder)[fr.idx]
           caller == ReplaceTop(stack, AdvanceFrame(fr))
       IN  \/ /\ failures < MaxFailures
              /\ SubFolderHandlerCatches("Exception")
              /\ stack' = caller
              /\ failures' = failures + 1
              /\ enumFailures' = enumFailures + 1
              /\ UNCHANGED entered
           \/ /\ stack' = PushFrame(caller,
                                    NewFrame(sub, fr.path, FolderName(sub)))
              /\ entered' = Append(entered, sub)
              /\ UNCHANGED <<failures, enumFailures>>
    /\ UNCHANGED <<pc, exitCode, exitCause, handle, store, disk, log, last,
                   lastSave, call>>

\* both loops are over: the walk of this folder returns to its caller
FolderDone ==
    /\ InSubFolders
    /\ Top(stack).idx > Len(SubFolders(Top(stack).folder))
    /\ stack' = Pop(stack)
    /\ UNCHANGED <<pc, exitCode, exitCause, handle, store, disk, entered, log,
                   last, lastSave, failures, enumFailures, call>>

\* folder.sub_messages or folder.sub_folders raises, when read or while
\* iterated: the handler of the walk of this folder gets the exception
IterRaises ==
    /\ pc = "walk" /\ stack # << >>
    /\ failures < MaxFailures
    /\ LET u == UnwindFolder(stack, "Exception")
       IN  /\ stack' = u.stack
           /\ IF u.escaped THEN Exit("walk_error")
              ELSE UNCHANGED <<pc, exitCode, exitCause>>
    /\ failures' = failures + 1
    /\ enumFailures' = enumFailures + 1
    /\ UNCHANGED <<handle, store, disk, entered, log, last, lastSave, call>>

Next ==
    \/ MainCheckPath
    \/ MainSetupDb
    \/ MainOpen
    \/ MainGetRoot
    \/ WalkRoot
    \/ MainClose
    \/ KeyboardInterrupt
    \/ ProcessMessage
    \/ MessagesDone
    \/ EnterSubFolder
    \/ FolderDone
    \/ IterRaises

Spec == Init /\ [][Next]_vars

(***************************************************************************)
(* One message handled on its own: the body of the message loop applied to *)
(* any message, in a folder of any of the paths below, against a database  *)
(* and an attachment directory a run can find.                             *)
(***************************************************************************)
MessagePaths ==
    {EmptyStr, StrInbox, StrSentItems, StrLower(StrSentItems),
     CurrentPath(StrInbox, StrSentItems)}

\* a file an earlier run over the same archive left in the directory
PriorFile ==
    [dir |-> "2024-01-01",
     name |-> make_physical_file_name(ToStr(MsgId(1, 1)), 0, Suffix(NameText))]

InitMessage ==
    /\ pc = "message"
    /\ exitCode = -1
    /\ exitCause = "running"
    /\ handle = "open"
    /\ stack = << >>
    /\ store \in {create_db_tables(st) : st \in StoresBeforeRun}
    /\ disk \in {{}, {PriorFile}}
    /\ entered = << >>
    /\ log = << >>
    /\ last = NoMessage
    /\ lastSave = NoSave
    /\ failures = 0
    /\ enumFailures = 0
    /\ call = NoCall

HandleOne ==
    /\ pc = "message"
    /\ pc' = "handled"
    /\ \E m \in MessagesWithId(MsgId(1, 1), FlagTexts, AttLists(MaxAttach)),
          folder_path \in MessagePaths, failAt \in 0..2 :
        MessageStep(m, folder_path, failAt)
    /\ UNCHANGED <<exitCode, exitCause, handle, stack, entered, log,
                   failures, enumFailures, call>>

NextMessage == HandleOne

SpecMessage == InitMessage /\ [][NextMessage]_vars

(***************************************************************************)
(* One batch written on its own: save_email_data_to_db applied to any      *)
(* batch of records, with the storage failing at any statement.            *)
(***************************************************************************)
\* an attachment dict with the keys extract_attachments gives it
PipelineAttach(email_id) ==
    [email_id |-> email_id, org_file_name |-> NameText,
     phy_file_name |-> make_physical_file_name(email_id, 0, Suffix(NameText)),
     save_folder |-> "2024-01-01", file_size |-> 1]

\* an attachment dict with the keys the INSERT of save_email_data_to_db reads
KeyedAttach(email_id) ==
    [email_id |-> email_id, save_folder |-> "2024-01-01",
     file_name |-> NameText]

BatchShapes == {"plain", "nocount", "pipeline1", "keyed1", "keyed2"}

\* the record of the given shape for the message identifier id
BatchRecord(shape, id) ==
    LET email_id == ToStr(id)
        base == [email_id |-> email_id, msg_kind |-> "receive",
                 folder_path |-> StrInbox]
    IN  IF shape = "nocount" THEN base @@ [note |-> NoteCountFailed]
        ELSE base @@
             [note |-> "None",
              attach_files |->
                 IF shape = "pipeline1" THEN <<PipelineAttach(email_id)>>
                 ELSE IF shape = "keyed1" THEN <<KeyedAttach(email_id)>>
                 ELSE IF shape = "keyed2"
                      THEN <<KeyedAttach(email_id), KeyedAttach(email_id)>>
                 ELSE << >>]

Batches ==
    UNION {{[i \in 1..n |-> BatchRecord(shapes[i], MsgId(1, i))] :
                shapes \in [1..n -> BatchShapes]} : n \in 0..MaxBatch}

\* the most statements a batch executes: per record its INSERT and those of
\* two attachments, and the COMMIT
MaxStatements == 3 * MaxBatch + 1

\* the database before the batch: the tables as create_db_tables leaves
\* them, without rows or with the rows of an earlier batch
StoresBeforeBatch ==
    {create_db_tables(st) : st \in StoresBeforeRun}
    \cup {SaveEmailDataToDb(EmptyStore(LegacyAttachTableColumns),
                            <<BatchRecord("keyed1", MsgId(2, 1))>>,
                            TRUE, 0).store}

InitSave ==
    /\ pc = "batch"
    /\ exitCode = -1
    /\ exitCause = "running"
    /\ handle = "none"
    /\ stack = << >>
    /\ store \in StoresBeforeBatch
    /\ disk = {}
    /\ entered = << >>
    /\ log = << >>
    /\ last = NoMessage
    /\ lastSave = NoSave
    /\ failures = 0
    /\ enumFailures = 0
    /\ call = NoCall

SaveBatch ==
    /\ pc = "batch"
    /\ pc' = "written"
    /\ \E batch \in Batches, dbPathSet \in BOOLEAN, failAt \in 0..MaxStatements :
        LET s == SaveEmailDataToDb(store, batch, dbPathSet, failAt)
        IN  /\ store' = s.store
            /\ lastSave' = SaveCall(store, batch, failAt, s)
            /\ \E conn \in ConnectionAtReturn(dbPathSet) :
                  call' = [fn |-> "save_email_data_to_db", conn |-> conn]
    /\ UNCHANGED <<exitCode, exitCause, handle, stack, disk, entered, log,
                   last, failures, enumFailures>>

NextSave == SaveBatch

SpecSave == InitSave /\ [][NextSave]_vars

(***************************************************************************)
(* The helper functions called on their own: the function is applied once  *)
(* to arguments drawn from the sets below and the call is recorded.        *)
(***************************************************************************)
AddrA == <<"a","@","x",".","c","o">>
AddrB == <<"b","@","y",".","i","o">>
DnUser == <<"/","O","=","X","/","O","U","=","E","x","c","h","a","n","g","e","/","C","N","=","j","d","o","e">>
DnNoOu == <<"/","o","=","X","/","c","n","=","j","d","o","e">>
DnRecipients == <<"/","O","=","X","/","O","U","=","Y","/","C","N","=","R","e","c","i","p","i","e","n","t","s","/","C","N","=","j","d","o","e">>
DnGuid == <<"/","O","=","X","/","O","U","=","Y","/","C","N","=","1","2","3","4","5","6","7","8","-","9","a","b","c","-","D","E","F","0","-","1","2","3","4","-","5","6","7","8","9","A","B","C","D","E","F","0">>
DnOuOnly == <<"/","O","=","X","/","O","U","=","Y">>
DnBare == <<"j","d","o","e">>

\* legacy directory identifiers: with and without OU=, with one or two
\* CN= components, with a GUID for common name, without a common name
DirectoryIds == {DnUser, DnNoOu, DnRecipients, DnGuid, DnOuOnly, DnBare}

\* transport headers: none, a From line with an address, a Reply-To line
\* only, a line of another header, a From line without an address before a
\* Reply-To line
HeaderTexts ==
    { << >>,
      <<<<"F","r","o","m",":"," ","B","o","b"," ","<","b","@","y",".","i","o",">">>>>,
      <<<<"R","e","p","l","y","-","T","o",":"," ","r","@","z",".","o","r","g">>>>,
      <<<<"T","o",":"," ","t","@","x",".","c","o">>>>,
      <<<<"F","r","o","m",":"," ","B","o","b">>, <<"R","e","p","l","y","-","T","o",":"," ","r","@","z",".","o","r","g">>>> }

\* reading transport_headers succeeds, raises, or yields bytes on which the
\* pattern search raises
HeaderOutcomes == {"none", "OSError", "TypeError"}

\* the properties of a message as get_property_from_record_sets reads them
SenderProps(sender, from, smtp, repr, display) ==
    [id \in {PossibleProps[k] : k \in DOMAIN PossibleProps}
            \cup {AdditionalProps[k] : k \in DOMAIN AdditionalProps}
            \cup {PR_FROM_EMAIL_ADDRESS} |->
        CASE id = PR_SENDER_EMAIL_ADDRESS -> sender
          [] id = PR_FROM_EMAIL_ADDRESS -> from
          [] id = "0x5D01" -> smtp
          [] id = "0x0065" -> repr
          [] id = "0x3001" -> display
          [] OTHER -> EmptyStr]

SenderMessages ==
    {[props |-> SenderProps(sender, from, smtp, repr, display),
      headers_exc |-> exc,
      headers |-> IF exc = "none" THEN lines ELSE << >>] :
        sender \in {EmptyStr, AddrA} \cup DirectoryIds,
        from \in {EmptyStr, AddrB, DnUser, DnRecipients},
        smtp \in {EmptyStr, AddrB},
        repr \in {EmptyStr, AddrA},
        display \in {EmptyStr, <<"B","o","b"," ","<","d","@","w",".","n","e","t",">">>, <<"n","@","a">>},
        exc \in HeaderOutcomes, lines \in HeaderTexts}

\* the most header fields of one header text
MaxFields == 2

Recipient(name, addr) == [name |-> name, addr |-> addr]

FieldNames == {<<"T","o">>, <<"c","C">>, <<"B","c","c">>}

\* the address lists of one field: one recipient, a bare address after a
\* named one, two named recipients out of order, a quoted name with blanks
\* around it and an encoded name, an address that differs by case
AddressLists ==
    { <<Recipient(<<"B","o","b">>, <<"b","@","x",".","c","o">>)>>,
      <<Recipient(<<"Z","e","d">>, <<"z","@","x",".","c","o">>), Recipient(EmptyStr, <<"a","@","x",".","c","o">>)>>,
      <<Recipient(<<"C","a","r","o","l">>, <<"c","@","x",".","c","o">>), Recipient(<<"B","o","b">>, <<"b","@","x",".","c","o">>)>>,
      <<Recipient(<<" "," ","B","o","b"," ">>, <<"b","@","x",".","c","o">>), Recipient(EncodedWord, <<"h","@","x",".","c","o">>)>>,
      <<Recipient(EmptyStr, <<"A","@","x",".","c","o">>), Recipient(EmptyStr, <<"a","@","x",".","c","o">>)>> }

HeaderFields == [name : FieldNames, pairs : AddressLists]

RECURSIVE FieldSeqs(_)
FieldSeqs(n) ==
    IF n = 0 THEN {<< >>}
    ELSE LET shorter == FieldSeqs(n - 1)
         IN  shorter \cup {Append(q, f) : q \in shorter, f \in HeaderFields}

RawHeaders ==
    {[fields |-> q, parse_raises |-> FALSE] : q \in FieldSeqs(MaxFields)}
    \cup {[fields |-> << >>, parse_raises |-> TRUE]}

\* the most bytes of a buffer besides its declaration
MaxBytes == 2

\* the bytes drawn: the letter A, the two bytes of the UTF-8 form of U+00E9
\* (a lead and a trail byte of the Korean codecs), and FF, which only the
\* single-byte codecs decode
ByteAlphabet == {65, 195, 169, 255}

Buffers ==
    {[decl |-> d, in_head |-> h, body |-> b] :
        d \in {"none", "utf-8", "iso-8859-1", "x-unknown"},
        h \in BOOLEAN,
        b \in UNION {[1..n -> ByteAlphabet] : n \in 1..MaxBytes}}

\* the default of trial_encs and other candidate lists
CandidateLists ==
    { <<"utf-8", "cp949", "euc-kr", "iso-8859-1", "windows-1252">>,
      <<"utf-8">>,
      <<"cp949", "utf-8">>,
      <<"iso-8859-1", "utf-8">>,
      <<"utf-8", "x-unknown", "iso-8859-1">> }

\* what from_bytes(data).best() can be: no match, or a match under a codec
\* that decodes the buffer
DetectorGuesses(data) ==
    {"none"} \cup {e \in {"cp949", "iso-8859-1"} : Decodable(data.body, e, 1)}

\* the most entries of the record sets of one handle
MaxEntries == 2

\* the entries of a record set: one of another property, and entries of
\* the property asked for whose string accessor yields a value, nothing,
\* or raises, with what the decoding of the raw data then returns
RecordEntries ==
    {[entry_type |-> "other", das |-> "v0", backup |-> "skip"]}
    \cup {[entry_type |-> PR_MESSAGE_CLASS, das |-> d, backup |-> "skip"] :
            d \in {"IOError", "None", "", "v1", "v2"}}
    \cup {[entry_type |-> PR_MESSAGE_CLASS, das |-> "AttributeError",
           backup |-> b] : b \in {"skip", "", "v3"}}

EntryLists == UNION {[1..n -> RecordEntries] : n \in 0..MaxEntries}

\* handles for get_property_from_record_sets
PropertyHandles ==
    {[sets_raise |-> FALSE, entries |-> es] : es \in EntryLists}
    \cup {[sets_raise |-> TRUE, entries |-> << >>]}

\* handles for get_message_class
ClassHandles ==
    {[attr |-> a, method |-> m, sets_raise |-> h.sets_raise,
      entries |-> h.entries] :
        a \in {"IOError", "", "v4"},
        m \in {"absent", "IOError", "", "v5"},
        h \in PropertyHandles}

\* raw data of name entries: no bytes, "a" as UTF-16LE, "b" as one byte,
\* the sentinel as three bytes and as UTF-16LE, and two zero bytes
NameBuffers ==
    { << >>, <<97, 0>>, <<98>>, <<95, 95, 95>>, <<95, 0, 95, 0, 95, 0>>,
      <<0, 0>>, <<32, 99, 32>> }

\* the entries of an attachment: one of another property, and entries of
\* the four name properties whose data are read or cannot be read
NameEntries ==
    {[entry_type |-> "0x370B", get_data_raises |-> FALSE, data |-> <<98>>]}
    \cup {[entry_type |-> t, get_data_raises |-> FALSE, data |-> d] :
            t \in wanted, d \in NameBuffers}
    \cup {[entry_type |-> t, get_data_raises |-> TRUE, data |-> << >>] :
            t \in {PR_ATTACH_LONG_FILENAME}}

\* attachment handles: up to MaxEntries entries, and what get_name does
AttachmentHandles ==
    {[entries |-> es, get_name |-> g] :
        es \in UNION {[1..n -> NameEntries] : n \in 0..MaxEntries},
        g \in {[kind |-> "absent", text |-> << >>],
               [kind |-> "raises", text |-> << >>],
               [kind |-> "None", text |-> << >>],
               [kind |-> "str", text |-> <<95, 95, 95, 100>>],
               [kind |-> "str", text |-> <<100>>]}}

InitHelper ==
    /\ pc = "helper"
    /\ exitCode = -1
    /\ exitCause = "running"
    /\ handle = "none"
    /\ stack = << >>
    /\ store = EmptyStore({})
    /\ disk = {}
    /\ entered = << >>
    /\ log = << >>
    /\ last = NoMessage
    /\ lastSave = NoSave
    /\ failures = 0
    /\ enumFailures = 0
    /\ call = NoCall

\* sender_address, from_address = get_sender_from_address(msg)
SenderCall ==
    /\ pc = "helper"
    /\ pc' = "returned"
    /\ \E msg \in SenderMessages :
        call' = [fn |-> "get_sender_from_address", msg |-> msg,
                 result |-> get_sender_from_address(msg)]
    /\ UNCHANGED <<exitCode, exitCause, handle, stack, store, disk, entered,
                   log, last, lastSave, failures, enumFailures>>

\* to_recipients, cc_recipients = recipients_from_headers(raw_headers)
RecipientsCall ==
    /\ pc = "helper"
    /\ pc' = "returned"
    /\ \E raw \in RawHeaders :
        call' = [fn |-> "recipients_from_headers", raw |-> raw,
                 result |-> recipients_from_headers(raw)]
    /\ UNCHANGED <<exitCode, exitCause, handle, stack, store, disk, entered,
                   log, last, lastSave, failures, enumFailures>>

\* text = byte_decode(data, trial_encs)
DecodeCall ==
    /\ pc = "helper"
    /\ pc' = "returned"
    /\ \E data \in Buffers, trial_encs \in CandidateLists :
        \E guess \in DetectorGuesses(data) :
            /\ data.decl = "none" => data.in_head
            /\ call' = [fn |-> "byte_decode", data |-> data,
                        trial_encs |-> trial_encs, guess |-> guess,
                        result |-> byte_decode(data, trial_encs, guess)]
    /\ UNCHANGED <<exitCode, exitCause, handle, stack, store, disk, entered,
                   log, last, lastSave, failures, enumFailures>>

\* value = get_property_from_record_sets(msg, property_id)
PropertyCall ==
    /\ pc = "helper"
    /\ pc' = "returned"
    /\ \E msg \in PropertyHandles :
        call' = [fn |-> "get_property_from_record_sets", msg |-> msg,
                 result |-> get_property_from_record_sets(msg,
                                                          PR_MESSAGE_CLASS)]
    /\ UNCHANGED <<exitCode, exitCause, handle, stack, store, disk, entered,
                   log, last, lastSave, failures, enumFailures>>

\* msg_class = get_message_class(msg)
MessageClassCall ==
    /\ pc = "helper"
    /\ pc' = "returned"
    /\ \E msg \in ClassHandles :
        call' = [fn |-> "get_message_class", msg |-> msg,
                 result |-> get_message_class_strategies(msg)]
    /\ UNCHANGED <<exitCode, exitCause, handle, stack, store, disk, entered,
                   log, last, lastSave, failures, enumFailures>>

\* raw_name of one attachment in extract_attachments
AttachNameCall ==
    /\ pc = "helper"
    /\ pc' = "returned"
    /\ \E att \in AttachmentHandles :
        call' = [fn |-> "find_attach_name", att |-> att,
                 first |-> find_attach_name(att),
                 result |-> attach_raw_name(att)]
    /\ UNCHANGED <<exitCode, exitCause, handle, stack, store, disk, entered,
                   log, last, lastSave, failures, enumFailures>>

NextHelper ==
    \/ SenderCall
    \/ PropertyCall
    \/ MessageClassCall
    \/ DecodeCall
    \/ RecipientsCall
    \/ AttachNameCall

SpecHelper == InitHelper /\ [][NextHelper]_vars

(***************************************************************************)
(* Properties of the sender resolution (checked under SpecHelper).         *)
(***************************************************************************)
SenderCalled == call.fn = "get_sender_from_address"

SenderValue == call.msg.props[PR_SENDER_EMAIL_ADDRESS]

FromValue == call.msg.props[PR_FROM_EMAIL_ADDRESS]

\* what each of the five steps yields for a message and an identifier, the
\* empty text when the step does not succeed
StepResults(msg, dn) ==
    LET ids == {k \in DOMAIN PossibleProps : HasAt(msg.props[PossibleProps[k]])}
        from == IF msg.headers_exc # "none" THEN EmptyStr
                ELSE HeaderAddress(msg.headers, <<"f","r","o","m",":">>)
        reply == IF msg.headers_exc # "none" THEN EmptyStr
                 ELSE HeaderAddress(msg.headers,
                                    <<"r","e","p","l","y","-","t","o",":">>)
        cn == DnToken(dn, KeyCn)
        recognised ==
            OccurrencesIgnoringCase(DnToken(dn, KeyOu),
                                    <<"e","x","c","h","a","n","g","e">>) # {}
        misc == {k \in DOMAIN AdditionalProps :
                    FindEmail(msg.props[AdditionalProps[k]]) # EmptyStr}
    IN  << IF ids = {} THEN EmptyStr
           ELSE msg.props[PossibleProps[CHOOSE k \in ids : \A j \in ids : k <= j]],
           IF from # EmptyStr THEN from ELSE reply,
           IF cn = EmptyStr \/ IsGuid(cn) THEN EmptyStr
           ELSE IF recognised
           THEN cn \o <<"@","o","u","t","l","o","o","k",".","c","o","m">>
           ELSE cn,
           IF misc = {} THEN EmptyStr
           ELSE FindEmail(msg.props[AdditionalProps[
                    CHOOSE k \in misc : \A j \in misc : k <= j]]),
           clean_exchange_dn(dn) >>

\* the result of the first step that succeeds
FirstSuccess(steps) ==
    LET ok == {k \in DOMAIN steps : steps[k] # EmptyStr}
    IN  IF ok = {} THEN EmptyStr
        ELSE steps[CHOOSE k \in ok : \A j \in ok : k <= j]

Resolved(msg, value) ==
    IF HasAt(value) THEN value ELSE FirstSuccess(StepResults(msg, value))

\* C12: for each of sender and from, a property value containing '@' is
\* returned unchanged, and a value without '@' resolves to the result of the
\* first of the five steps that succeeds, in the order alternative property,
\* transport headers, common name, miscellaneous property, cleaned
\* identifier; a later step's result is never returned when an earlier
\* step succeeds.
C12_FallbackOrder ==
    SenderCalled =>
        /\ SenderValue # EmptyStr =>
            call.result.sender_address = Resolved(call.msg, SenderValue)
        /\ FromValue # EmptyStr =>
            call.result.from_address = Resolved(call.msg, FromValue)

\* C13: for every non-empty directory identifier without '@' and every
\* message, with properties or transport headers absent, malformed or
\* raising on access, the fallback chain returns a non-empty text and does
\* not raise.
C13_NeverEmptyNeverRaises ==
    SenderCalled =>
        /\ SenderValue # EmptyStr /\ ~HasAt(SenderValue) =>
            /\ call.result.raised = "none"
            /\ call.result.sender_address # EmptyStr
        /\ FromValue # EmptyStr /\ ~HasAt(FromValue) =>
            /\ call.result.raised = "none"
            /\ call.result.from_address # EmptyStr

\* an identifier without a common name, on a message whose header access
\* raises and whose properties hold no address: the cleaned rendering
C13_Witness ==
    /\ SenderCalled
    /\ SenderValue = DnOuOnly
    /\ call.msg.headers_exc # "none"
    /\ \A id \in DOMAIN call.msg.props :
            id # PR_SENDER_EMAIL_ADDRESS => call.msg.props[id] = EmptyStr
    /\ call.result.raised = "none"
    /\ call.result.sender_address = clean_exchange_dn(DnOuOnly)
    /\ Len(call.result.sender_address) > 0

\* a directory identifier whose header step and common-name step both
\* succeed while no alternative property has an address: the header
\* address is returned
C12_Witness ==
    /\ SenderCalled
    /\ SenderValue # EmptyStr
    /\ ~HasAt(SenderValue)
    /\ LET steps == StepResults(call.msg, SenderValue)
       IN  /\ steps[1] = EmptyStr
           /\ steps[2] # EmptyStr
           /\ steps[3] # EmptyStr
           /\ steps[2] # steps[3]
           /\ call.result.sender_address = steps[2]

TextJdoe == <<"j","d","o","e">>

\* C14: for a directory identifier containing CN=jdoe, whatever other O=,
\* OU= and CN= components it carries, on a message with no resolvable
\* alternative address (no alternative or miscellaneous property with an
\* address, no header address), the resolved sender is a non-empty text
\* that contains jdoe.
C14_CommonNameKept ==
    ( /\ SenderCalled
      /\ OccurrencesIgnoringCase(SenderValue, <<"c","n","=">> \o TextJdoe) # {}
      /\ ~HasAt(SenderValue)
      /\ LET steps == StepResults(call.msg, SenderValue)
         IN  steps[1] = EmptyStr /\ steps[2] = EmptyStr /\ steps[4] = EmptyStr )
    => /\ call.result.sender_address # EmptyStr
       /\ OccurrencesIgnoringCase(call.result.sender_address, TextJdoe) # {}

\* C15: when the message has no from-address property, from_address equals
\* the sender_address of the same call, for a sender property with '@' as
\* for a directory identifier.
C15_FromFallsBackToSender ==
    (SenderCalled /\ FromValue = EmptyStr /\ call.result.raised = "none")
    => call.result.from_address = call.result.sender_address

(***************************************************************************)
(* Properties of the recipient lists (checked under SpecHelper).           *)
(***************************************************************************)
RecipientsCalled ==
    call.fn = "recipients_from_headers" /\ ~call.raw.parse_raises

RECURSIVE SplitList(_)
\* the items of a text joined with "; "
SplitList(text) ==
    LET cuts == {i \in 1..(Len(text) - 1) : text[i] = ";" /\ text[i + 1] = " "}
    IN  IF cuts = {} THEN <<text>>
        ELSE LET cut == CHOOSE i \in cuts : \A j \in cuts : i <= j
             IN  <<SubSeq(text, 1, cut - 1)>>
                 \o SplitList(SubSeq(text, cut + 2, Len(text)))

\* the recipients of the fields called name, each as "Name <address>" or
\* as the bare address
RecipientsOf(fields, name) ==
    LET Shown(p) ==
            LET shown == Strip(decode_name(p.name))
            IN  IF shown = EmptyStr THEN p.addr
                ELSE shown \o <<" ", "<">> \o p.addr \o <<">">>
    IN  UNION {{Shown(fields[i].pairs[k]) : k \in DOMAIN fields[i].pairs} :
                i \in {i \in DOMAIN fields : StrLower(fields[i].name) = name}}

\* text lists exactly the recipients of the fields called name, each once,
\* in ascending order, joined with "; "
ListsRecipients(text, fields, name) ==
    LET items == IF text = EmptyStr THEN << >> ELSE SplitList(text)
    IN  /\ {items[i] : i \in DOMAIN items} = RecipientsOf(fields, name)
        /\ \A i \in 1..(Len(items) - 1) : TextLess(items[i], items[i + 1])

\* C16: recipients_from_headers returns, for To and for Cc separately, the
\* recipients of the fields of that header only (none of a Bcc field), each
\* formatted as "Name <address>" or as the bare address when it has no
\* name, without duplicates, sorted, and joined with "; ".
C16_RecipientLists ==
    RecipientsCalled =>
        /\ ListsRecipients(call.result.to, call.raw.fields, <<"t", "o">>)
        /\ ListsRecipients(call.result.cc, call.raw.fields, <<"c", "c">>)

\* a To field naming Carol before Bob next to a Bcc field with other
\* recipients: the To list holds Bob before Carol and nobody else
C16_Witness ==
    /\ RecipientsCalled
    /\ \E i, j \in DOMAIN call.raw.fields :
        /\ StrLower(call.raw.fields[i].name) = <<"t", "o">>
        /\ Len(call.raw.fields[i].pairs) = 2
        /\ StrLower(call.raw.fields[j].name) = <<"b", "c", "c">>
        /\ RecipientsOf(call.raw.fields, <<"b", "c", "c">>)
             \cap RecipientsOf(call.raw.fields, <<"t", "o">>) = {}
    /\ LET items == SplitList(call.result.to)
       IN  /\ Len(items) = 2
           /\ items[2] = Strip(call.raw.fields[1].pairs[1].name)
                           \o <<" ", "<">> \o call.raw.fields[1].pairs[1].addr
                           \o <<">">>
    /\ call.result.cc = EmptyStr

(***************************************************************************)
(* Properties of byte_decode (checked under SpecHelper).                   *)
(***************************************************************************)
DecodeCalled == call.fn = "byte_decode"

\* C17: byte_decode returns a text and never raises, for every non-empty
\* byte sequence and every candidate list, also when every candidate
\* rejects the bytes; when the detector then has no guess, the result is
\* the Latin-1 decoding of the bytes.
C17_AlwaysText ==
    DecodeCalled =>
        /\ call.result.kind = "str"
        /\ (call.result.step = "detector" /\ call.guess = "none") =>
                call.result.value = call.data.body

\* the declaration names a codec and lies in the first 2048 bytes
DeclarationWins ==
    /\ call.data.decl \in KnownCodecs
    /\ call.data.in_head

\* the candidates that decode the whole buffer
Accepting ==
    {k \in DOMAIN call.trial_encs :
        Decodable(call.data.body, call.trial_encs[k], 1)}

\* T.encode(E) for the codecs with a closed form
EncodeText(text, enc) ==
    IF enc = "utf-8" THEN EncodeUtf8(text) ELSE text

RoundTripTexts ==
    UNION {[1..n -> {65, 169, 195, 233, 255}] : n \in 1..MaxBytes}

\* C18: byte_decode applies its strategies in order and stops at the first
\* success: a declaration in the first 2 KB wins over the candidates;
\* otherwise the result is the strict decoding under the first candidate,
\* in list order, that accepts the buffer; the detector is used only when
\* every candidate rejects. So byte_decode(T.encode(E)) = T for a candidate
\* E when no declaration and no earlier candidate succeeds on those bytes.
C18_StrategyOrder ==
    (DecodeCalled /\ \A k \in DOMAIN call.trial_encs :
                        call.trial_encs[k] \in KnownCodecs)
    => /\ DeclarationWins =>
            /\ call.result.kind = "str"
            /\ call.result.step = "declaration"
            /\ call.result.value = DecodeFrom(call.data.body, call.data.decl, 1)
       /\ \A k \in Accepting :
            (~DeclarationWins /\ \A j \in Accepting : k <= j) =>
                /\ call.result.kind = "str"
                /\ call.result.step = "candidate"
                /\ call.result.value =
                        DecodeFrom(call.data.body, call.trial_encs[k], 1)
       /\ call.result.step = "detector" =>
            ~DeclarationWins /\ Accepting = {}
       /\ \A k \in DOMAIN call.trial_encs, text \in RoundTripTexts :
            ( /\ call.trial_encs[k] \in {"utf-8", "iso-8859-1"}
              /\ call.data.body = EncodeText(text, call.trial_encs[k])
              /\ ~DeclarationWins
              /\ \A j \in 1..(k - 1) : j \notin Accepting )
            => call.result.value = text

\* the bytes C3 A9 under the list cp949, utf-8: both candidates accept, the
\* text is the one of the first, which is not the one of the second
C18_Witness ==
    /\ DecodeCalled
    /\ ~DeclarationWins
    /\ Cardinality(Accepting) = 2
    /\ call.result.step = "candidate"
    /\ call.result.value = DecodeFrom(call.data.body, call.trial_encs[1], 1)
    /\ call.result.value # DecodeFrom(call.data.body, call.trial_encs[2], 1)

(***************************************************************************)
(* Properties of the property resolver (checked under SpecHelper).         *)
(***************************************************************************)
ResolverCalled ==
    call.fn \in {"get_property_from_record_sets", "get_message_class"}

\* the values the strategies and the matching entries yield, in order; an
\* access that raises yields none
ValuesInOrder ==
    LET Obtained(value) ==
            IF value \in {"absent", "IOError", "AttributeError", "skip"}
            THEN << >> ELSE <<value>>
        OfEntry(entry) ==
            IF entry.entry_type # PR_MESSAGE_CLASS THEN << >>
            ELSE Obtained(entry.das) \o Obtained(entry.backup)
        own == IF call.fn = "get_message_class"
               THEN Obtained(call.msg.attr) \o Obtained(call.msg.method)
               ELSE << >>
    IN  own \o Flatten([i \in DOMAIN call.msg.entries |->
                            OfEntry(call.msg.entries[i])])

\* C19: the property resolver never raises, also on a handle whose property
\* enumeration or entry accessors raise; it returns the first non-empty
\* value obtained, in order, from the strategies and the matching entries,
\* and the empty or absent value when none of them yields a non-empty one.
\* (Every access of the resolver lies in a try block with except
\* Exception; the result recorded is the value returned.)
C19_FirstNonEmptyValue ==
    ResolverCalled =>
        LET filled == {i \in DOMAIN ValuesInOrder : Truthy(ValuesInOrder[i])}
        IN  IF filled = {} THEN ~Truthy(call.result)
            ELSE call.result = ValuesInOrder[SetMin(filled)]

(***************************************************************************)
(* Properties of the attachment name (checked under SpecHelper).           *)
(***************************************************************************)
NameResolved == call.fn = "find_attach_name"

\* the place of a name property in the order long filename, short
\* filename, display name, extension
NamePriority(entry_type) ==
    CASE entry_type = PR_ATTACH_LONG_FILENAME -> 1
      [] entry_type = PR_ATTACH_FILENAME -> 2
      [] entry_type = PR_DISPLAY_NAME -> 3
      [] entry_type = PR_ATTACH_EXTENSION -> 4

\* the stored entries that carry a non-empty filename candidate
NameCandidates ==
    {k \in DOMAIN call.att.entries :
        /\ call.att.entries[k].entry_type \in wanted
        /\ EntryName(call.att.entries[k]).found}

\* C24: of several filename candidates the name found is the non-empty
\* candidate of highest priority (long filename, short filename, display
\* name, extension), whatever the order in which the entries are stored;
\* get_name() is called only when that name is empty or starts with the
\* sentinel prefix.
C24_HighestPriorityName ==
    NameResolved =>
        /\ NameCandidates = {} => ~call.first.found
        /\ NameCandidates # {} =>
              /\ call.first.found
              /\ \E k \in NameCandidates :
                    /\ \A j \in NameCandidates :
                          NamePriority(call.att.entries[k].entry_type)
                            <= NamePriority(call.att.entries[j].entry_type)
                    /\ call.first.text = EntryName(call.att.entries[k]).text
        /\ call.result.probed =>
              ~call.first.found \/ StartsWith(call.first.text, Sentinel)

(***************************************************************************)
(* Properties of save_email_data_to_db (checked under SpecSave).           *)
(***************************************************************************)
\* the statement numbered failAt was executed, and the storage failed it
StorageFailed == lastSave.called /\ lastSave.failAt \in 1..lastSave.stmts

\* C1: save_email_data_to_db is all-or-nothing. Whatever the batch and
\* whichever of its INSERT statements (or the COMMIT) the storage fails, the
\* store after the call is the store before it: no email row and no
\* attachment row of the batch is visible, and DBWriteError is raised to the
\* caller. Any other exception of the call leaves the store untouched too.
C1_AllOrNothing ==
    pc = "written" =>
        /\ StorageFailed =>
              lastSave.raised = "DBWriteError" /\ store = lastSave.pre
        /\ lastSave.raised # "none" => store = lastSave.pre

\* the second INSERT of a batch of three records fails, after the first
\* wrote its row, in a database that holds the rows of an earlier batch
C1_Witness ==
    /\ pc = "written"
    /\ Len(lastSave.batch) = 3
    /\ lastSave.failAt = 2
    /\ lastSave.stmts = 2
    /\ lastSave.raised = "DBWriteError"
    /\ Len(lastSave.pre.mail) = 1
    /\ Len(lastSave.pre.attach) = 1
    /\ store = lastSave.pre

\* C26: each call of save_email_data_to_db opens its own connection, runs
\* one transaction on it (the rows of the batch are all committed or none
\* is), and the connection is closed when the call returns, on success
\* and on failure: no connection remains open after a batch write.
C26_ConnectionClosedAtReturn ==
    (pc = "written" /\ call.fn = "save_email_data_to_db") =>
        /\ call.conn # "open"
        /\ \/ store = lastSave.pre
           \/ /\ lastSave.raised = "none"
              /\ Len(store.mail)
                   = Len(lastSave.pre.mail) + Len(lastSave.batch)

(***************************************************************************)
(* Properties of the handling of one message (checked under SpecMessage).  *)
(***************************************************************************)
\* the record handed to save_email_data_to_db by the last message
HandedRecord == lastSave.batch[1]

\* a record was built by extract_email_data and handed to the store, and no
\* storage failure was injected
SavedWithoutInjectedFailure ==
    pc = "handled" /\ lastSave.called /\ lastSave.failAt = 0

\* C2: for a record built by the extraction pipeline and no injected
\* storage failure, the save commits one email row for the record and one
\* attachment row per attachment record, each carrying the generated id of
\* its parent row and the email id of the archive.
C2_PipelineRecordCommitted ==
    SavedWithoutInjectedFailure =>
        LET atts == AttachFilesOf(HandedRecord)
            m0 == Len(lastSave.pre.mail)
            a0 == Len(lastSave.pre.attach)
        IN  /\ lastSave.raised = "none"
            /\ Len(store.mail) = m0 + 1
            /\ store.mail[m0 + 1].email_id = HandedRecord.email_id
            /\ Len(store.attach) = a0 + Len(atts)
            /\ \A i \in 1..Len(atts) :
                  /\ store.attach[a0 + i].parent_id = store.mail[m0 + 1].id
                  /\ store.attach[a0 + i].email_id = HandedRecord.email_id

\* the text of the class starts with IPM.NOTE once upper-cased
StartsWithIpmNoteIgnoringCase(cls) ==
    /\ Len(cls) >= Len(StrIpmNote)
    /\ \A i \in 1..Len(StrIpmNote) : UpperChar(cls[i]) = StrIpmNote[i]

\* the last message was left alone: no record, no file, no error
LeftAlone ==
    /\ last.outcome = "skipped"
    /\ last.exc = "none"
    /\ ~lastSave.called
    /\ store = last.store_before
    /\ disk = last.disk_before

C7_CountFailureStillPersisted ==
    (pc = "handled" /\ last.count_raises /\ IsMailItem(last.msg_class)
       /\ lastSave.failAt = 0) =>
        /\ Len(store.mail) = Len(last.store_before.mail) + 1
        /\ store.mail[Len(store.mail)].email_id = ToStr(last.identifier)
        /\ "note" \in DOMAIN store.mail[Len(store.mail)]
        /\ store.mail[Len(store.mail)].note = NoteCountFailed
        /\ store.attach = last.store_before.attach
        /\ disk = last.disk_before

\* C10: every record handed to save_email_data_to_db has msg_kind "sent"
\* or "receive", whatever the message, its folder path and its flags.
C10_KindIsSentOrReceive ==
    (pc = "handled" /\ lastSave.called) =>
        /\ "msg_kind" \in DOMAIN HandedRecord
        /\ HandedRecord.msg_kind \in {"sent", "receive"}

\* a message whose flags are no number, in a folder that is no sent folder
C10_Witness ==
    /\ pc = "handled"
    /\ lastSave.called
    /\ last.flags = <<"x">>
    /\ StrLower(last.folder_path) \notin SentFolderNames
    /\ HandedRecord.msg_kind = "receive"

\* the last message was built into a record by extract_email_data
RecordBuilt == pc = "handled" /\ last.outcome \in {"saved", "save_failed"}

\* two texts are equal when case is ignored
SameIgnoringCase(a, b) ==
    Len(a) = Len(b) /\ \A i \in 1..Len(a) : LowerChar(a[i]) = LowerChar(b[i])

\* the flags are a number whose 0x40 bit is set
FromMeBitSet(flags) ==
    IsIntText(flags) /\ (ParseInt(flags) % (2 * MSGFLAG_FROMME)) >= MSGFLAG_FROMME

\* the kind the decision order gives for a folder path and a flags value
KindByDecisionOrder(flags, folder_path) ==
    IF \E name \in SentFolderNames : SameIgnoringCase(folder_path, name)
    THEN "sent"
    ELSE IF FromMeBitSet(flags) THEN "sent"
    ELSE "receive"

\* C11: determine_message_kind follows a fixed decision order: a folder
\* path that is, case ignored, one of the sent-folder names gives "sent"
\* whatever the flags; else flags with the from-me bit 0x40 set give "sent";
\* else the kind is "receive". The kind is a function of the folder path
\* and the flags only.
C11_DecisionOrder ==
    RecordBuilt =>
        last.record.msg_kind = KindByDecisionOrder(last.flags, last.folder_path)

\* a message of Inbox whose flags 0x41 carry the from-me bit is "sent"
C11_Witness ==
    /\ RecordBuilt
    /\ last.folder_path = StrInbox
    /\ last.flags = <<"6","5">>
    /\ last.record.msg_kind = "sent"

\* C20: extract_attachments never writes a payload onto a path that exists
\* in the target directory: on a collision of the generated file name the
\* numeric-suffix loop ends at a free path. Every file that was there is
\* still there, and every attachment written is one more file and one
\* record, also for attachments with the same original and the same
\* generated name.
C20_NoOverwrite ==
    (pc = "handled" /\ RecordBuilt /\ "attach_files" \in DOMAIN last.record)
    => /\ last.disk_before \subseteq disk
       /\ Cardinality(disk)
            = Cardinality(last.disk_before) + Len(last.record.attach_files)

\* two attachments of one name written at one clock reading into a
\* directory that holds a file of that generated name: three files, two
\* records
C20_Witness ==
    /\ pc = "handled"
    /\ RecordBuilt
    /\ "attach_files" \in DOMAIN last.record
    /\ Len(last.record.attach_files) = 2
    /\ last.record.attach_files[1].org_file_name
        = last.record.attach_files[2].org_file_name
    /\ last.record.attach_files[1].phy_file_name
        = last.record.attach_files[2].phy_file_name
    /\ [dir |-> last.record.attach_files[1].save_folder,
        name |-> last.record.attach_files[1].phy_file_name] \in last.disk_before
    /\ Cardinality(disk) = Cardinality(last.disk_before) + 2

\* the sanitized name is image, three digits, a dot and a common image
\* extension, whatever the case of the letters
InlineImageName(name) ==
    /\ Len(name) \in {12, 13}
    /\ SameIgnoringCase(SubSeq(name, 1, 5), <<"i","m","a","g","e">>)
    /\ \A i \in 6..8 : name[i] \in DigitSet
    /\ name[9] = "."
    /\ \E ext \in ImageExts : SameIgnoringCase(SubSeq(name, 10, Len(name)), ext)

\* the attachments of the last message that are to be kept: no inline
\* image, payload readable
KeptAttachments ==
    SelectSeq(last.atts, LAMBDA a : ~InlineImageName(a.name) /\ ~a.read_raises)

ExtractionReturned ==
    pc = "handled" /\ RecordBuilt /\ "attach_files" \in DOMAIN last.record

\* C21: an attachment whose sanitized name matches the auto-generated
\* inline-image pattern (image, exactly three digits, a common image
\* extension, case-insensitive) is never written to disk and never appears
\* in the attachment list of its message, while the other attachments of
\* the message are still processed.
C21_InlineImagesSkipped ==
    ExtractionReturned =>
        /\ \A i \in DOMAIN last.record.attach_files :
              ~InlineImageName(last.record.attach_files[i].org_file_name)
        /\ Len(last.record.attach_files) = Len(KeptAttachments)
        /\ \A i \in DOMAIN KeptAttachments :
              last.record.attach_files[i].org_file_name = KeptAttachments[i].name
        /\ Cardinality(disk \ last.disk_before) = Len(KeptAttachments)

\* an inline image in upper case before a file that is kept: one record,
\* one new file
C21_Witness ==
    /\ ExtractionReturned
    /\ Len(last.atts) = 2
    /\ last.atts[1].name = NameInlineUpper
    /\ last.atts[2].name = NameFourDigits
    /\ Len(last.record.attach_files) = 1
    /\ last.record.attach_files[1].org_file_name = NameFourDigits
    /\ Cardinality(disk \ last.disk_before) = 1

\* the attachments of the last message that can be materialised: the
\* handle is handed out, the payload is read, the name is no inline image
SoundAttachments ==
    SelectSeq(last.atts,
              LAMBDA a : ~a.get_raises /\ ~a.read_raises
                         /\ ~InlineImageName(a.name))

\* C22: extract_attachments never raises because of a single attachment:
\* a failure at any step for attachment i skips attachment i only, every
\* remaining attachment is still processed and the message is still
\* recorded.
C22_AttachmentFailureContained ==
    (pc = "handled" /\ last.atts # << >>)
    => /\ RecordBuilt
       /\ "attach_files" \in DOMAIN last.record
       /\ Len(last.record.attach_files) = Len(SoundAttachments)
       /\ \A i \in DOMAIN SoundAttachments :
             last.record.attach_files[i].org_file_name = SoundAttachments[i].name

\* the payload of some attachment of the last message cannot be read, every
\* attachment handle is handed out and no storage failure is injected
ReadFailureOnly ==
    /\ pc = "handled"
    /\ \E i \in DOMAIN last.atts : last.atts[i].read_raises
    /\ \A i \in DOMAIN last.atts : ~last.atts[i].get_raises
    /\ lastSave.failAt = 0

\* C23: if reading the payload of attachment i fails, no file is written
\* and no record is produced for attachment i, the attachments after i are
\* still read, written and recorded, and the record of the message is
\* still persisted.
C23_ReadFailureSkipsOne ==
    ReadFailureOnly =>
        /\ ExtractionReturned
        /\ Len(last.record.attach_files) = Len(SoundAttachments)
        /\ \A i \in DOMAIN SoundAttachments :
              last.record.attach_files[i].org_file_name = SoundAttachments[i].name
        /\ Cardinality(disk \ last.disk_before) = Len(SoundAttachments)
        /\ Len(store.mail) = Len(last.store_before.mail) + 1
        /\ store.mail[Len(store.mail)].email_id = ToStr(last.identifier)

\* the row of fund_mail written by the last call
PersistedRow == store.mail[Len(store.mail)]

\* C25: the email row persisted for a record stores the normalized fields
\* of the record; its msg_kind and folder_path columns hold the
\* classification and the folder path of the record.
C25_RowHoldsKindAndPath ==
    (pc = "handled" /\ last.outcome = "saved") =>
        /\ Len(store.mail) = Len(last.store_before.mail) + 1
        /\ PersistedRow.email_id = last.record.email_id
        /\ "msg_kind" \in DOMAIN PersistedRow
        /\ PersistedRow.msg_kind = last.record.msg_kind
        /\ "folder_path" \in DOMAIN PersistedRow
        /\ PersistedRow.folder_path = last.record.folder_path

\* the files written while the last message was handled
WrittenFiles == disk \ last.disk_before

\* the file an attachment record names
NamedFile(rec) == [dir |-> rec.save_folder, name |-> rec.phy_file_name]

\* C27: for every attachment record returned, the recorded physical
\* filename and folder name the file the payload was written to, also when
\* the collision loop appended a suffix; no two records of one directory
\* carry the same physical filename.
C27_RecordNamesWrittenFile ==
    ExtractionReturned =>
        LET recs == last.record.attach_files
        IN  /\ \A i \in DOMAIN recs : NamedFile(recs[i]) \in WrittenFiles
            /\ \A i, j \in DOMAIN recs :
                  (i # j /\ recs[i].save_folder = recs[j].save_folder)
                      => recs[i].phy_file_name # recs[j].phy_file_name

\* C28: files on disk and attachment rows correspond after a message was
\* handled: when building or persisting its record fails after some of its
\* payloads were written, no attachment file of the message remains on
\* disk without a persisted row for it.
C28_NoOrphanFiles ==
    pc = "handled" =>
        \A file \in WrittenFiles :
            \E k \in DOMAIN store.attach :
                /\ k > Len(last.store_before.attach)
                /\ store.attach[k].email_id = ToStr(last.identifier)

(***************************************************************************)
(* Properties of the run of main and of the walk (checked under Spec).     *)
(***************************************************************************)
\* the identifiers of the messages of folder f, as the reader yields them
OwnMessages(f) == [i \in 1..MsgCount(f) |-> MsgId(f, i)]

\* walk_folder (src/main.py): the messages the generator yields for the
\* subtree of f (for the subtrees of the folders fs), those of a folder
\* first, then those of its sub folders in turn
RECURSIVE walk_folder(_), WalkSubFolders(_)
walk_folder(f) == OwnMessages(f) \o WalkSubFolders(SubFolders(f))
WalkSubFolders(fs) ==
    IF fs = << >> THEN << >>
    ELSE walk_folder(Head(fs)) \o WalkSubFolders(Tail(fs))

AllMessages == walk_folder(1)

LogIds == [i \in DOMAIN log |-> log[i].id]

FailedEntry(e) == e.outcome \in {"build_failed", "save_failed"}
SavedEntry(e) == e.outcome = "saved"

\* the walk has returned to main
WalkReturned == pc \in {"walk", "exited"} /\ stack = << >> /\ entered # << >>

\* the email ids of the rows of fund_mail, in the order of their ids
PersistedIds == [i \in DOMAIN store.mail |-> store.mail[i].email_id]

\* the email ids of the messages of the log whose save returned
SavedIds ==
    LET saved == SelectSeq(log, SavedEntry)
    IN  [i \in DOMAIN saved |-> ToStr(saved[i].id)]

\* C3: when building or persisting the record of one mail item fails, the
\* error does not leave the walk, the rows persisted before stay, and every
\* later message of the folder and of the folders after it is still handled:
\* as long as no folder fails to give its name or its items, the messages
\* handled are an initial part of the depth-first order of all messages,
\* and the whole of it once the walk has returned.
C3_MessageFailureContained ==
    /\ (\E i \in DOMAIN log : FailedEntry(log[i])) => exitCause # "walk_error"
    /\ (pc \in {"walk", "exited"} /\ FailedEntry(last)) =>
            store = last.store_before
    /\ PersistedIds = SavedIds
    /\ enumFailures = 0 =>
            /\ Len(log) <= Len(AllMessages)
            /\ LogIds = SubSeq(AllMessages, 1, Len(log))
    /\ (enumFailures = 0 /\ WalkReturned) => LogIds = AllMessages

\* the walk returned after a message failed to build and another failed to
\* save: a message of the same folder and messages of later folders were
\* saved after a failure, and the row saved before a failure is still there
C3_Witness ==
    /\ WalkReturned
    /\ enumFailures = 0
    /\ \E j, k \in DOMAIN log :
          j < k /\ FailedEntry(log[j]) /\ SavedEntry(log[k])
                /\ log[j].folder = log[k].folder
    /\ \E i, j, k \in DOMAIN log :
          /\ i < j /\ j < k
          /\ SavedEntry(log[i]) /\ FailedEntry(log[j]) /\ SavedEntry(log[k])
          /\ log[j].folder # log[k].folder
          /\ \E r \in DOMAIN store.mail :
                store.mail[r].email_id = ToStr(log[i].id)

\* the folder whose sub_folders holds f
Parent(f) == CHOOSE p \in Folders : \E k \in DOMAIN SubFolders(p) : SubFolders(p)[k] = f

\* f and the folders above it
RECURSIVE AncestorsFrom(_)
AncestorsFrom(f) == IF f = 1 THEN {1} ELSE {f} \cup AncestorsFrom(Parent(f))

AncestorTable == [f \in Folders |-> AncestorsFrom(f)]
Ancestors(f) == AncestorTable[f]

\* the position of the sub folder of p through which f is reached
BranchIndex(p, f) ==
    CHOOSE k \in DOMAIN SubFolders(p) : SubFolders(p)[k] \in Ancestors(f)

\* the deepest folder above both f and g
CommonAncestor(f, g) ==
    CHOOSE a \in Ancestors(f) \cap Ancestors(g) :
        \A b \in Ancestors(f) \cap Ancestors(g) : b \in Ancestors(a)

\* folder f is visited before folder g in a depth-first traversal: f is
\* above g, or f lies in the subtree of an earlier sibling
FolderBeforeDef(f, g) ==
    /\ f # g
    /\ \/ f \in Ancestors(g)
       \/ /\ g \notin Ancestors(f)
          /\ LET a == CommonAncestor(f, g)
             IN  BranchIndex(a, f) < BranchIndex(a, g)

FolderBeforeTable ==
    [f \in Folders |-> {g \in Folders : FolderBeforeDef(f, g)}]
FolderBefore(f, g) == g \in FolderBeforeTable[f]

\* the message of log entry d comes before that of e: earlier in the same
\* folder, or in a folder visited before
MessageBefore(d, e) ==
    IF d.folder = e.folder THEN d.id < e.id
    ELSE FolderBefore(d.folder, e.folder)

\* C4: the walk is depth-first. The messages of a folder are handled in the
\* order the reader yields them and before any message of a folder below;
\* sub folders are entered in declared order, and the whole subtree of one
\* is handled before any message of a later sibling or of its descendants;
\* the rows of fund_mail follow the same order.
C4_DepthFirstOrder ==
    /\ \A i, j \in DOMAIN log : i < j => MessageBefore(log[i], log[j])
    /\ \A i, j \in DOMAIN entered :
            i < j => FolderBefore(entered[i], entered[j])
    /\ \A i \in DOMAIN log :
            \E k \in DOMAIN entered :
                entered[k] = log[i].folder
    /\ LET saved == SelectSeq(log, SavedEntry)
       IN  /\ Len(store.mail) = Len(saved)
           /\ \A r \in DOMAIN store.mail :
                 /\ store.mail[r].email_id = ToStr(saved[r].id)
                 /\ r > 1 => store.mail[r - 1].id < store.mail[r].id

\* every folder was entered and every message persisted, those of the
\* subtree of the first sub folder before that of the second sub folder
C4_Witness ==
    /\ WalkReturned
    /\ Len(entered) = NumFolders
    /\ Len(store.mail) = Len(AllMessages)
    /\ PersistedIds = [i \in DOMAIN AllMessages |-> ToStr(AllMessages[i])]
    /\ \E i, j \in DOMAIN log :
          /\ i < j
          /\ log[i].folder # 1
          /\ Parent(log[i].folder) = SubFolders(1)[1]
          /\ log[j].folder = SubFolders(1)[2]

\* C5: in one traversal no message is handled twice and no folder is
\* entered twice, whatever fails along the way.
C5_AtMostOnce ==
    /\ \A i, j \in DOMAIN log : i # j => log[i].id # log[j].id
    /\ \A i, j \in DOMAIN entered : i # j => entered[i] # entered[j]
    /\ Len(log) <= Len(AllMessages)
    /\ Len(entered) <= NumFolders

\* the walk returned after as many failures as a run can have, among them
\* that of a message, and after messages of several folders were handled
C5_Witness ==
    /\ WalkReturned
    /\ failures = MaxFailures
    /\ \E i \in DOMAIN log : FailedEntry(log[i])
    /\ Len(log) >= 3
    /\ Len(entered) >= 3

\* reading or iterating folder.sub_messages of the innermost folder fails
MessageIterationFails == InMessages /\ enumFailures' = enumFailures + 1

\* the walk of the innermost folder goes on with its sub folders
GoesOnWithSubFolders ==
    /\ pc' = "walk"
    /\ Len(stack') = Len(stack)
    /\ Top(stack').folder = Top(stack).folder
    /\ Top(stack').phase = "subs"

\* C29: a failure while the messages of a folder F are enumerated or
\* iterated skips at most the remaining messages of F: the walk of F goes
\* on with the child folders of F (and the folders after F are walked).
C29_IterationFailureKeepsChildren ==
    [][MessageIterationFails => GoesOnWithSubFolders]_vars

\* the walk built a record for the message it handled last, which lies in
\* a folder whose own name is one of the sent-folder names
RecordedInSentFolder ==
    /\ log # << >>
    /\ last.identifier = log[Len(log)].id
    /\ last.outcome \in {"saved", "save_failed"}
    /\ StrLower(FolderName(log[Len(log)].folder)) \in SentFolderNames

\* C30: through the walk, every recorded message whose folder is named with
\* a sent-folder name is classified "sent" whatever its flags, at every
\* depth of the tree, the walk passing the path concatenated from the
\* names of the ancestors.
C30_SentFolderAtEveryDepth ==
    RecordedInSentFolder => last.record.msg_kind = "sent"

\* C8: once the archive was opened, the handle is closed when the process
\* ends, on every path.
C8_HandleClosedAtExit == pc = "exited" => handle # "open"

\* C9: the exit code is 0 when the archive was opened, the root folder
\* reached and the walk returned, whatever failed for single messages; it
\* is not 0 when the file is missing, the archive cannot be opened, the root
\* folder is unavailable or an error or interrupt reaches the top level.
C9_ExitCode ==
    pc = "exited" =>
        /\ exitCause = "done" =>
              exitCode = 0 /\ handle = "closed" /\ WalkReturned
        /\ exitCause \in {"missing_file", "db_setup_error", "open_error",
                           "no_root", "root_error", "walk_error",
                           "close_error", "interrupt"} => exitCode # 0
        /\ exitCode = 0 => exitCause = "done"
        /\ exitCause # "running"

\* the run ends with code 0 although a message failed to build or to save
C9_Witness ==
    /\ pc = "exited"
    /\ exitCode = 0
    /\ \E i \in DOMAIN log : FailedEntry(log[i])
    /\ \E i \in DOMAIN log : SavedEntry(log[i])

=============================================================================
